---- MODULE Spec2Model ----
(***************************************************************************)
(* Chunked audio player of the Spotify clone UI.                           *)
(*                                                                         *)
(*   AudioPlayerService (services/AudioPlayerService.js): start, destroy,  *)
(*   the chunk loader, the module-level single-track cache and the Howl    *)
(*   handle with its callbacks.                                            *)
(*   player store (store/modules/player.js): selectTrack, togglePlayback,  *)
(*   the end-of-track handler with the repeat modes, destroyPlayer.        *)
(*                                                                         *)
(* JavaScript runs on one event loop.  One action of this module is one    *)
(* macrotask: a user operation, the arrival of a network response, a Howl  *)
(* event or a timer, together with every promise continuation (microtask)  *)
(* it releases, up to the next point where the code waits for the network, *)
(* for a Howl event or for a timer.                                        *)
(*                                                                         *)
(* Three specifications share the service and the environment actions:     *)
(*   Spec      the store drives the services it creates;                   *)
(*   SvcSpec   a client calls the public methods of one service built by   *)
(*             initializeAudioService directly;                            *)
(*   PlaySpec  as SvcSpec without destroy, in an environment where a play  *)
(*             may fail.                                                   *)
(***************************************************************************)
EXTENDS Integers, Sequences, FiniteSets, TLC

(* ------------------------------ bounds -------------------------------- *)
MaxCalls == 3          \* start() invocations per behaviour
MaxSelects == 2        \* of them, through the store's selectTrack (Spec)
MaxSeekSelects == 3    \* the same in SeekSpec and AdvanceSpec
MaxTotalChunks == 25   \* total_chunks of a track's metadata in LoadSpec
MaxSongs == 3          \* songs of a playlist in PlSpec, ids 1..MaxSongs
MaxFilterCalls == 1    \* filter() calls awaiting one request in FilterSpec
MaxPlayCalls == 1      \* of them, in PlaySpec
MaxSvc == 2            \* AudioPlayerService instances per behaviour
NumTracks == 2         \* track ids 1..NumTracks
MaxTicks == 1          \* clock steps per behaviour
TickMs == 500          \* milliseconds per clock step
StartTime == 1000      \* Date.now() when the page starts
MaxTimers == 1         \* pending setTimeout callbacks of one kind
MaxPlayReq == 1        \* play commands of a handle awaiting their outcome
MaxPlayErrors == 2     \* consecutive play errors the environment produces
LongTrackChunks == 11  \* total_chunks of track 1 (two batches)
ShortTrackChunks == 3  \* total_chunks of the other tracks (one batch)

(* -------------------------- program constants ------------------------- *)
Null == 0
BATCH_SIZE == 10
IMMEDIATE_RETRIES == 5
DELAYED_RETRIES == 5
DEBOUNCE_MS == 500
StoreDefaultVolume == 50
ServiceDefaultVolume == 50   \* 0.5 on the engine's 0..1 scale

Tracks == 1..NumTracks
Calls == 1..MaxCalls
Svcs == 1..MaxSvc
Catalog == [i \in 1..NumTracks |-> i]     \* rootState.tracks.tracks, by id
Min(a, b) == IF a < b THEN a ELSE b
Max(a, b) == IF a > b THEN a ELSE b

VARIABLES
  now,         \* Date.now()
  audioCache,  \* the module-level cache object
  svc,         \* the AudioPlayerService instances
  howl,        \* the Howl handles, indexed by the start() call that built them
  call,        \* the start() invocations
  ncall,       \* number of start() invocations so far
  nsvc,        \* number of services constructed so far
  store,       \* state of the player store module
  pm,          \* the store's PlaylistManager
  tracks,      \* rootState.tracks.tracks: the list of the tracks module
  timers,      \* pending setTimeout callbacks
  retry,       \* the retryRequest invocation of ApiService
  gh           \* history variables

vars ==
  <<now, audioCache, svc, howl, call, ncall, nsvc, store, pm, tracks, timers,
    retry, gh>>

(* The mutable state as one record, so that a handler is a composition of  *)
(* functions from state to state, in the order of the statements it runs.  *)
(* overflow is set when a handler would exceed a bound of the model.       *)
\* history: what the latest step was, for the steps that record it
NoEvent == [op |-> "none", a |-> 0, b |-> 0]

World ==
  [cache |-> audioCache, svc |-> svc, howl |-> howl, call |-> call,
   ncall |-> ncall, nsvc |-> nsvc, store |-> store, pm |-> pm,
   tracks |-> tracks, timers |-> timers, retry |-> retry, gh |-> [gh EXCEPT !.last = NoEvent, !.emitted = <<>>, !.plays = 0],
   overflow |-> FALSE]

\* the step records itself in the history
Mark(w, op, a, b) == [w EXCEPT !.gh.last = [op |-> op, a |-> a, b |-> b]]

\* history: `repeated` names a handle while the play command that the
\* repeat-one callback gave it awaits its outcome
History(w) ==
  LET g == IF ~store.isMuted /\ w.store.isMuted
           THEN [w.gh EXCEPT !.beforeMute = store.volume] ELSE w.gh
  IN IF g.repeated # Null /\ w.howl[g.repeated].playReq = 0
     THEN [g EXCEPT !.repeated = Null] ELSE g

Commit(w) ==
  /\ ~w.overflow
  /\ audioCache' = w.cache
  /\ svc' = w.svc
  /\ howl' = w.howl
  /\ call' = w.call
  /\ ncall' = w.ncall
  /\ nsvc' = w.nsvc
  /\ store' = w.store
  /\ pm' = w.pm
  /\ tracks' = w.tracks
  /\ timers' = w.timers
  /\ retry' = w.retry
  /\ gh' = History(w)

(* ------------------------------ initial ------------------------------- *)
\* no retryRequest call yet. lastError, result and thrown hold at most one
\* value; calls and delays count the requestFn invocations and the elapsed
\* delays of the call
NoRetry ==
  [pc |-> "idle", phase |-> 0, attempt |-> 0, lastError |-> <<>>,
   result |-> <<>>, thrown |-> <<>>, calls |-> 0, delays |-> 0]
\* null, for the fields that hold a blob and a metadata object
NoBlob == [track |-> Null, chunks |-> 0, bytes |-> <<>>]
NoMetadata == [track |-> Null, total_chunks |-> 0]

EmptyCache == [trackId |-> Null, blob |-> NoBlob, chunks |-> 0, metadata |-> NoMetadata]

NewService ==
  [created |-> TRUE, howl |-> Null, currentTrackId |-> Null, isPlaying |-> FALSE,
   volume |-> ServiceDefaultVolume, isLoading |-> FALSE, isDestroyed |-> FALSE,
   loadingPromise |-> Null, lastStartTime |-> 0, isStarting |-> FALSE,
   progressInterval |-> FALSE]

NoService == [NewService EXCEPT !.created = FALSE]

NoHowl ==
  [state |-> "none", svc |-> Null, track |-> Null, playing |-> FALSE, pos |-> 0,
   playReq |-> 0, sounds |-> FALSE, retries |-> 0, volume |-> 0]

\* howl.duration() of a loaded handle, in seconds
TrackDuration == 4

\* the chunk_index and chunk_count of a streamAudio request
NoRequest == [chunk_index |-> 0, chunk_count |-> 0]

\* start(trackId, volume = null): the default of the volume parameter
NoVolume == 0 - 1

\* pc: free, meta (metadata request out), chunk (batch request out),
\* howl (waiting for the handle's load event), await (waiting for another
\* call's loadingPromise), done.  result: none, true, false, throw.
\* vol: the volume argument, NoVolume when the caller passes none.
\* req: the streamAudio request that is out while pc = "chunk".
\* chunks: loadedChunks where the responses carry bytes (AssembleSpec);
\* loaded counts them everywhere.
\* cancelled, dupOf, inWindow, fetched, wroteCache are history fields.
NoCall ==
  [pc |-> "free", svc |-> Null, track |-> Null, vol |-> NoVolume, batch |-> 0,
   loaded |-> 0, req |-> NoRequest, chunks |-> <<>>,
   total |-> 0, joined |-> Null, result |-> "none", viaStore |-> FALSE,
   cancelled |-> FALSE, dupOf |-> Null, inWindow |-> FALSE, fetched |-> FALSE,
   wroteCache |-> FALSE]

InitialStore ==
  [audioService |-> Null, hasPlaylistManager |-> FALSE, currentSong |-> Null,
   isPlaying |-> FALSE, currentTime |-> 0, volume |-> StoreDefaultVolume,
   repeatMode |-> "off", loadingTrack |-> FALSE, chunksLoaded |-> 0,
   totalChunks |-> 0, loadProgress |-> 0, isMuted |-> FALSE, duration |-> 0,
   playbackProgress |-> 0, previousVolume |-> StoreDefaultVolume,
   isShuffleActive |-> FALSE, originalTrackOrder |-> <<>>]

\* this.filters of a PlaylistManager; Null is JavaScript's null
NoFilters == [artist |-> Null, album |-> Null, name |-> Null]

\* loading: _loading, with _lastLoadPromise pending.  req: the merged
\* parameters of the request that is out.  awaiting: the filters that the
\* filter() calls awaiting _lastLoadPromise had set.
NoPlaylistManager ==
  [songs |-> <<>>, currentIndex |-> 0, loading |-> FALSE,
   filters |-> NoFilters, req |-> NoFilters, awaiting |-> {}]

NoTimers ==
  [restart |-> [s \in Svcs |-> 0], retry |-> [s \in Svcs |-> 0],
   reselect |-> 0, repeatOne |-> 0, next |-> 0]

\* lastSet: id of the latest cache write that no clearing followed.
\* lateCb: a callback was emitted for a load that destroy() had cancelled.
\* lastSel: the latest selectTrack that started a fetch sequence or named
\*          another track than the one before it.
\* repeated: the handle the repeat-one callback found at its end and
\*          restarted, while that restart is pending.
\* last: see NoEvent.
\* emitted: the onLoadProgress calls of the latest step, in order.
\* plays: the number of play() calls the latest step made on live handles.
\* beforeMute: the store's volume before the step that last muted it.
\* atShuffle: while shuffle is active, the list the playlist had when it
\*          was activated and the store's current song, if in that list.
\* manual: the track a selectTrack of the user named while a callback of
\*          onPlaybackEnd was pending, until such a callback runs or a
\*          track ends again.
InitialHistory ==
  [lastSet |-> Null, lateCb |-> FALSE,
   lastSel |-> [id |-> Null, t |-> 0, fetched |-> FALSE],
   repeated |-> Null, last |-> [op |-> "none", a |-> 0, b |-> 0],
   selects |-> MaxSelects, emitted |-> <<>>, plays |-> 0, beforeMute |-> 0,
   atShuffle |-> [active |-> FALSE, songs |-> <<>>, current |-> Null],
   manual |-> Null]

Init ==
  /\ now = StartTime
  /\ audioCache = EmptyCache
  /\ svc = [s \in Svcs |-> NoService]
  /\ howl = [h \in Calls |-> NoHowl]
  /\ call = [c \in Calls |-> NoCall]
  /\ ncall = 0
  /\ nsvc = 0
  /\ store = InitialStore
  /\ pm = NoPlaylistManager
  /\ tracks = Catalog
  /\ timers = NoTimers
  /\ retry = NoRetry
  /\ gh = InitialHistory

(* ------------------- callbacks installed by the store ----------------- *)
\* audioService.onLoadComplete
StoreOnLoadComplete(w) == [w EXCEPT !.store.loadingTrack = FALSE]

\* audioService.onLoadProgress -> SET_CHUNKS_PROGRESS; percentages are kept
\* in whole percent
StoreOnLoadProgress(w, loaded, total, progress) ==
  [w EXCEPT !.store.chunksLoaded = loaded, !.store.totalChunks = total,
            !.store.loadProgress =
               IF progress # 0 THEN progress
               ELSE IF total > 0 THEN (loaded * 100) \div total ELSE 0]

\* audioService.onPlaybackProgressUpdate -> SET_PLAYBACK_TIME / _PROGRESS
StoreOnProgressUpdate(w, currentTime, duration, progress) ==
  [w EXCEPT !.store.currentTime = currentTime,
            !.store.duration = duration,
            !.store.playbackProgress = progress]

\* setTimeout(fn, ms): one more pending callback of that kind
Schedule(w, kind) ==
  IF w.timers[kind] >= MaxTimers THEN [w EXCEPT !.overflow = TRUE]
  ELSE [w EXCEPT !.timers[kind] = @ + 1]

ScheduleFor(w, kind, s) ==
  IF w.timers[kind][s] >= MaxTimers THEN [w EXCEPT !.overflow = TRUE]
  ELSE [w EXCEPT !.timers[kind][s] = @ + 1]

\* The PlaylistManager the store imports keeps its list in `songs`; it has
\* no `tracks` property, so reading playlistManager.tracks yields undefined.
PlaylistManagerHasTracks == FALSE

\* audioService.onPlaybackEnd
StoreOnPlaybackEnd(w) ==
  LET w1 == [w EXCEPT !.store.isPlaying = FALSE] IN
  CASE w1.store.repeatMode = "one" -> Schedule(w1, "repeatOne")
    [] w1.store.repeatMode = "all" -> Schedule(w1, "next")
    [] OTHER ->
         IF ~w1.store.hasPlaylistManager THEN w1
         ELSE IF ~PlaylistManagerHasTracks
              THEN w1   \* undefined.length: TypeError leaves the handler
              ELSE IF w1.pm.currentIndex + 1 < Len(w1.pm.songs)
                   THEN Schedule(w1, "next") ELSE w1

(* --------------------------- progress timer --------------------------- *)
StopProgressTracking(w, s) == [w EXCEPT !.svc[s].progressInterval = FALSE]

StartProgressTracking(w, s) ==
  [StopProgressTracking(w, s) EXCEPT !.svc[s].progressInterval = TRUE]

(* ----------- Howl handle: the callbacks the service passes to it ------- *)
OnPlay(w, h) ==
  LET s == w.howl[h].svc IN
  StartProgressTracking([w EXCEPT !.svc[s].isPlaying = TRUE], s)

OnPause(w, h) ==
  LET s == w.howl[h].svc IN
  StopProgressTracking([w EXCEPT !.svc[s].isPlaying = FALSE], s)

OnStop(w, h) ==
  LET s == w.howl[h].svc IN
  StopProgressTracking([w EXCEPT !.svc[s].isPlaying = FALSE], s)

OnEnd(w, h) ==
  LET s == w.howl[h].svc IN
  StoreOnPlaybackEnd(StopProgressTracking([w EXCEPT !.svc[s].isPlaying = FALSE], s))

OnLoadError(w, h) ==
  LET s == w.howl[h].svc IN
  [w EXCEPT !.svc[s].isLoading = FALSE, !.svc[s].isStarting = FALSE]

OnPlayError(w, h) == ScheduleFor(w, "retry", w.howl[h].svc)

(* ------ Howl handle: the commands the service and the store issue ------ *)
(* howler.js is a library outside the repository.  Its contract as used    *)
(* here: play() on a handle that is loading is queued until it loads; each *)
(* play() ends in a play or a playerror event; pause() and stop() take     *)
(* effect at once and report through pause/stop when the handle has a      *)
(* sound; a handle that played to its end rests there until seek() or     *)
(* stop(); unload() first stops a sound that is playing or about to play,  *)
(* which reports through stop, and the handle emits nothing further.  At   *)
(* most MaxPlayReq play commands of a handle wait for their outcome;       *)
(* further ones merge.                                                     *)
HowlPlay(w, h) ==
  IF w.howl[h].state \notin {"loading", "loaded"} THEN w
  ELSE [w EXCEPT !.howl[h].playReq = Min(@ + 1, MaxPlayReq),
                 !.howl[h].sounds = TRUE,
                 !.gh.plays = @ + 1]

HowlPause(w, h) ==
  IF w.howl[h].state = "loading" THEN [w EXCEPT !.howl[h].playReq = 0]
  ELSE IF w.howl[h].state # "loaded" \/ ~w.howl[h].sounds THEN w
  ELSE OnPause([w EXCEPT !.howl[h].playing = FALSE, !.howl[h].playReq = 0], h)

HowlStop(w, h) ==
  IF w.howl[h].state = "loading" THEN [w EXCEPT !.howl[h].playReq = 0]
  ELSE IF w.howl[h].state # "loaded" \/ ~w.howl[h].sounds THEN w
  ELSE OnStop([w EXCEPT !.howl[h].playing = FALSE, !.howl[h].playReq = 0,
                        !.howl[h].pos = 0], h)

HowlSeekStart(w, h) ==
  IF w.howl[h].state = "loaded" THEN [w EXCEPT !.howl[h].pos = 0] ELSE w

HowlUnloadSilently(w, h) ==
  [w EXCEPT !.howl[h] = [NoHowl EXCEPT !.state = "unloaded"]]

HowlUnload(w, h) ==
  LET hw == w.howl[h]
      w1 == IF hw.state = "loaded" /\ (hw.playing \/ hw.playReq > 0)
            THEN OnStop(w, h) ELSE w
  IN [w1 EXCEPT !.howl[h] = [NoHowl EXCEPT !.state = "unloaded"]]

\* howl.duration(): 0 until the handle has loaded
HowlDuration(w, h) == IF w.howl[h].state = "loaded" THEN TrackDuration ELSE 0

(* ------------------------- AudioPlayerService ------------------------- *)
CleanupPreviousTrack(w, s) ==
  LET w1 == StopProgressTracking(w, s)
      h == w1.svc[s].howl
      w2 == IF h # Null
            THEN [HowlUnload(HowlStop(w1, h), h) EXCEPT !.svc[s].howl = Null]
            ELSE w1
  IN [w2 EXCEPT !.svc[s].isPlaying = FALSE]

\* audioCache.trackId = null; ... (start, on a change of track)
CacheClear(w) == [w EXCEPT !.cache = EmptyCache, !.gh.lastSet = Null]

(* Bytes.  A chunk travels as a base64 string, here the sequence of its    *)
(* characters' 6-bit values with Pad for '='.                              *)
Pad == 64

\* atob(chunkData): the char codes of the binary string
RECURSIVE Atob(_)
Atob(str) ==
  IF Len(str) < 4 THEN <<>>
  ELSE LET v(i) == IF str[i] = Pad THEN 0 ELSE str[i]
           bits == ((v(1) * 64 + v(2)) * 64 + v(3)) * 64 + v(4)
           three == <<bits \div 65536, (bits \div 256) % 256, bits % 256>>
           keep == IF str[3] = Pad THEN 1 ELSE IF str[4] = Pad THEN 2 ELSE 3
       IN SubSeq(three, 1, keep) \o Atob(SubSeq(str, 5, Len(str)))

\* loadAllChunks: bytes[j] = binaryString.charCodeAt(j) into a Uint8Array
DecodeChunk(chunkData) ==
  LET binaryString == Atob(chunkData) IN
  [j \in 1..Len(binaryString) |-> binaryString[j] % 256]

\* loadAllChunks: loadedChunks.push(bytes) for each chunk of data.chunks
PushChunks(loadedChunks, data_chunks) ==
  loadedChunks \o [i \in 1..Len(data_chunks) |-> DecodeChunk(data_chunks[i])]

RECURSIVE TotalLength(_)
TotalLength(chunks) ==
  IF chunks = <<>> THEN 0 ELSE Len(Head(chunks)) + TotalLength(Tail(chunks))

\* combined.set(chunk, offset)
SetAt(combined, chunk, offset) ==
  [k \in 1..Len(combined) |->
     IF offset < k /\ k <= offset + Len(chunk) THEN chunk[k - offset]
     ELSE combined[k]]

RECURSIVE CombineOverwriting(_, _, _)
CombineOverwriting(combined, chunks, offset) ==
  IF chunks = <<>> THEN combined
  ELSE CombineOverwriting(SetAt(combined, Head(chunks), offset), Tail(chunks),
                          offset)

\* createBlobFromChunks: the second forEach, from offset on
RECURSIVE Combine(_, _, _)
Combine(combined, chunks, offset) ==
  IF chunks = <<>> THEN combined
  ELSE Combine(SetAt(combined, Head(chunks), offset), Tail(chunks),
               offset + Len(Head(chunks)))

\* createBlobFromChunks(chunks).  A blob carries the track whose bytes it
\* holds, its chunk count and, where the responses carry bytes, the bytes.
CreateBlobFromChunks(track, loaded, chunks) ==
  [track |-> track, chunks |-> loaded,
   bytes |-> Combine([k \in 1..TotalLength(chunks) |-> 0], chunks, 0)]

CacheSetUnderCurrentTrack(w, s, c, blob, metadata) ==
  [w EXCEPT !.cache = [trackId |-> w.svc[s].currentTrackId, blob |-> blob,
                       chunks |-> blob.chunks, metadata |-> metadata],
            !.gh.lastSet = w.svc[s].currentTrackId,
            !.call[c].wroteCache = TRUE]

\* audioCache.trackId = trackId; .blob = blob; .chunks = chunks; .metadata
CacheSet(w, s, c, blob, metadata) ==
  [w EXCEPT !.cache = [trackId |-> w.call[c].track, blob |-> blob,
                       chunks |-> blob.chunks, metadata |-> metadata],
            !.gh.lastSet = w.call[c].track,
            !.call[c].wroteCache = TRUE]

\* the lookup at the head of _loadAndCreatePlayer
CacheGet(cache, id) ==
  IF cache.trackId = id /\ cache.blob # NoBlob /\ cache.metadata # NoMetadata
  THEN [found |-> TRUE, blob |-> cache.blob, metadata |-> cache.metadata]
  ELSE [found |-> FALSE, blob |-> NoBlob, metadata |-> NoMetadata]

CreateHowlKeepingPrevious(w, s, c, blob) ==
  [w EXCEPT !.howl[c] = [NoHowl EXCEPT !.state = "loading", !.svc = s,
                                       !.track = blob.track,
                                       !.volume = w.svc[s].volume],
            !.svc[s].howl = c,
            !.call[c].pc = "howl"]

\* _createHowlFromBlob up to the promise it returns
CreateHowlFromBlob(w, s, c, blob) ==
  LET old == w.svc[s].howl
      w1 == IF old # Null
            THEN [HowlUnload(w, old) EXCEPT !.svc[s].howl = Null]
            ELSE w
  IN [w1 EXCEPT !.howl[c] = [NoHowl EXCEPT !.state = "loading", !.svc = s,
                                           !.track = blob.track,
                                           !.volume = w.svc[s].volume],
                !.svc[s].howl = c,
                !.call[c].pc = "howl"]

\* a callback of the service fires inside load c
Emitted(w, c) ==
  IF w.call[c].cancelled THEN [w EXCEPT !.gh.lateCb = TRUE] ELSE w

LoadAndCreatePlayerIgnoringCache(w, s, c) ==
  [w EXCEPT !.call[c].pc = "meta", !.call[c].fetched = TRUE]

\* _loadAndCreatePlayer up to its first wait
LoadAndCreatePlayer(w, s, c) ==
  LET id == w.call[c].track
      hit == CacheGet(w.cache, id)
  IN IF hit.found
     THEN CreateHowlFromBlob(StoreOnLoadComplete(Emitted(w, c)), s, c, hit.blob)
     ELSE [w EXCEPT !.call[c].pc = "meta", !.call[c].fetched = TRUE]

DebouncedNever(sv, id, t) == FALSE

\* now - this.lastStartTime < 500 && this.currentTrackId === trackId
Debounced(sv, id, t) ==
  t - sv.lastStartTime < DEBOUNCE_MS /\ sv.currentTrackId = id

\* _loadAndCreatePlayer has not returned / is still fetching
InFlight(cl) == cl.pc \in {"meta", "chunk", "howl"}

FetchPending(cl) == cl.pc \in {"meta", "chunk"}

\* the record of a call that returned r: only its history is kept
Returned(cl, r) ==
  [NoCall EXCEPT !.pc = "done", !.result = r, !.viaStore = cl.viaStore,
                 !.track = cl.track, !.vol = cl.vol,
                 !.cancelled = cl.cancelled,
                 !.dupOf = cl.dupOf, !.inWindow = cl.inWindow,
                 !.fetched = cl.fetched, !.wroteCache = cl.wroteCache]

\* start(trackId, volume) up to its first wait; the call's record is
\* w.call[w.ncall] of the result, with pc = "done" when start returned.
Start(w, s, id, vol, via, t) ==
  LET c == w.ncall + 1
      sv == w.svc[s]
      same == sv.currentTrackId = id
      lp == sv.loadingPromise
      dup == IF sv.isLoading /\ same /\ lp # Null /\ InFlight(w.call[lp])
             THEN lp ELSE Null
      rec == [NoCall EXCEPT !.svc = s, !.track = id, !.vol = vol,
                            !.viaStore = via, !.dupOf = dup]
      ret(x, r) == [x EXCEPT !.call[c] = Returned(@, r)]
  IN
  IF c > MaxCalls THEN [w EXCEPT !.overflow = TRUE]
  ELSE
  LET w1 == [w EXCEPT !.ncall = c, !.call[c] = rec] IN
  IF sv.isStarting /\ same THEN ret(w1, "false")
  ELSE IF Debounced(sv, id, t) THEN ret(w1, "false")
  ELSE
  LET w2 == [w1 EXCEPT !.svc[s].lastStartTime = t] IN
  IF sv.isLoading /\ same /\ lp # Null
  THEN \* await this.loadingPromise; return true
       IF w2.call[lp].pc = "done"
       THEN ret(w2, IF w2.call[lp].result = "true" THEN "true" ELSE "throw")
       ELSE [w2 EXCEPT !.call[c].pc = "await", !.call[c].joined = lp]
  ELSE IF same /\ sv.howl # Null /\ ~sv.isDestroyed
  THEN \* the same track is loaded: restart it
       LET w3 == IF sv.isPlaying THEN HowlPause(w2, sv.howl) ELSE w2
           w4 == HowlSeekStart(w3, sv.howl)
       IN ret(ScheduleFor(w4, "restart", s), "true")
  ELSE
  LET w3 == [w2 EXCEPT !.svc[s].isStarting = TRUE, !.svc[s].isLoading = TRUE]
      w4 == IF ~same
            THEN LET k == CleanupPreviousTrack(w3, s) IN
                 IF k.cache.trackId # Null /\ k.cache.trackId # id
                 THEN CacheClear(k) ELSE k
            ELSE w3
      w5 == [w4 EXCEPT !.svc[s].currentTrackId = id,
                       !.svc[s].isDestroyed = FALSE,
                       !.svc[s].volume = IF vol # NoVolume THEN vol ELSE @,
                       !.svc[s].loadingPromise = c]
  IN LoadAndCreatePlayer(w5, s, c)

\* play()
ServicePlay(w, s) ==
  LET sv == w.svc[s] IN
  IF sv.howl # Null /\ ~sv.isDestroyed /\ ~sv.isLoading
  THEN HowlPlay(w, sv.howl) ELSE w

PauseByUnload(w, s) ==
  LET sv == w.svc[s] IN
  IF sv.howl # Null /\ ~sv.isDestroyed
  THEN [HowlUnload(w, sv.howl) EXCEPT !.svc[s].howl = Null,
                                      !.svc[s].isPlaying = FALSE]
  ELSE w

\* pause()
ServicePause(w, s) ==
  LET sv == w.svc[s] IN
  IF sv.howl # Null /\ ~sv.isDestroyed THEN HowlPause(w, sv.howl) ELSE w

\* stop()
ServiceStop(w, s) ==
  LET sv == w.svc[s] IN
  IF sv.howl # Null /\ ~sv.isDestroyed THEN HowlStop(w, sv.howl) ELSE w

\* playAndPause()
ServicePlayAndPause(w, s) ==
  LET sv == w.svc[s] IN
  IF sv.howl = Null \/ sv.isDestroyed \/ sv.isLoading THEN w
  ELSE IF sv.isPlaying THEN HowlPause(w, sv.howl) ELSE HowlPlay(w, sv.howl)

\* seekToPosition(positionPercent); onPlaybackProgressUpdate is the store's
ServiceSeekToPosition(w, s, positionPercent) ==
  LET sv == w.svc[s] IN
  IF sv.howl = Null \/ sv.isDestroyed \/ sv.isLoading THEN w
  ELSE LET duration == HowlDuration(w, sv.howl) IN
       IF duration <= 0 THEN w
       ELSE LET targetTime == (positionPercent * duration) \div 100 IN
            StoreOnProgressUpdate([w EXCEPT !.howl[sv.howl].pos = targetTime],
                                  targetTime, duration, positionPercent)

SetVolumeOnHandleOnly(w, s, volume) ==
  LET sv == w.svc[s] IN
  IF sv.howl # Null /\ ~sv.isDestroyed
  THEN [w EXCEPT !.howl[sv.howl].volume = Max(0, Min(100, volume))] ELSE w

\* setVolume(volume); volumes are kept in percent
ServiceSetVolume(w, s, volume) ==
  LET sv == w.svc[s]
      normalizedVolume == Max(0, Min(100, volume))
      w1 == [w EXCEPT !.svc[s].volume = normalizedVolume]
  IN IF sv.howl # Null /\ ~sv.isDestroyed
     THEN [w1 EXCEPT !.howl[sv.howl].volume = normalizedVolume] ELSE w1

\* destroy(); the loads it interrupts before their fetch completed are
\* marked in the history
ServiceDestroy(w, s) ==
  LET w1 == [w EXCEPT !.svc[s].isDestroyed = TRUE, !.svc[s].isPlaying = FALSE,
                      !.svc[s].isLoading = FALSE, !.svc[s].isStarting = FALSE,
                      !.call = [c \in Calls |->
                                  IF w.call[c].svc = s /\ FetchPending(w.call[c])
                                  THEN [w.call[c] EXCEPT !.cancelled = TRUE]
                                  ELSE w.call[c]]]
      w2 == CleanupPreviousTrack(StopProgressTracking(w1, s), s)
  IN [w2 EXCEPT !.svc[s].currentTrackId = Null]

(* ----------------------------- PlaylistManager ------------------------ *)
\* index of the first song with that id, or -1 (Array.prototype.findIndex)
FindIndex(songs, id) ==
  IF \E i \in 1..Len(songs) : songs[i] = id
  THEN (CHOOSE i \in 1..Len(songs) :
          songs[i] = id /\ \A j \in 1..(i - 1) : songs[j] # id) - 1
  ELSE -1

\* setCurrentSong(songId)
PMSetCurrentSong(w, id) ==
  LET idx == FindIndex(w.pm.songs, id) IN
  [w EXCEPT !.pm.currentIndex =
     IF idx >= 0 THEN idx ELSE Max(0, Min(@, Len(w.pm.songs) - 1))]

PMNextWithoutWrap(w) ==
  IF Len(w.pm.songs) = 0 THEN w
  ELSE [w EXCEPT !.pm.currentIndex = Min(@ + 1, Len(w.pm.songs) - 1)]

\* a % b of JavaScript, b > 0: the remainder has the sign of a
JsRem(a, b) == IF a >= 0 THEN a % b ELSE 0 - ((0 - a) % b)

\* next()
PMNext(w) ==
  IF Len(w.pm.songs) = 0 THEN w
  ELSE [w EXCEPT !.pm.currentIndex = JsRem(@ + 1, Len(w.pm.songs))]

PMPrevWithoutLength(w) ==
  IF Len(w.pm.songs) = 0 THEN w
  ELSE [w EXCEPT !.pm.currentIndex = JsRem(@ - 1, Len(w.pm.songs))]

\* prev()
PMPrev(w) ==
  IF Len(w.pm.songs) = 0 THEN w
  ELSE [w EXCEPT !.pm.currentIndex =
                   JsRem(@ - 1 + Len(w.pm.songs), Len(w.pm.songs))]

\* getCurrentSong(): the clamping of currentIndex it performs
PMClampIndex(w) ==
  IF Len(w.pm.songs) = 0 THEN w
  ELSE [w EXCEPT !.pm.currentIndex = Max(0, Min(@, Len(w.pm.songs) - 1))]

\* getCurrentSong(): the song it returns, Null for none
PMCurrentSong(w) ==
  IF Len(w.pm.songs) = 0 THEN Null
  ELSE w.pm.songs[Max(0, Min(w.pm.currentIndex, Len(w.pm.songs) - 1)) + 1]

PMSetSongsKeepingIndex(w, list) == [w EXCEPT !.pm.songs = list]

\* setSongs(list)
PMSetSongs(w, list) ==
  [w EXCEPT !.pm.songs = list,
            !.pm.currentIndex = IF @ >= Len(list) THEN 0 ELSE @]

\* the array with the elements at (0-based) positions i and j exchanged
Swap(list, i, j) ==
  [k \in 1..Len(list) |->
     IF k = i + 1 THEN list[j + 1] ELSE IF k = j + 1 THEN list[i + 1]
     ELSE list[k]]

\* for (let i = length - 1; i > 0; i--) { j = floor(random() * (i + 1));
\* swap i, j }: the loop from i down, random[i] the j drawn at i
RECURSIVE FisherYates(_, _, _)
FisherYates(list, i, random) ==
  IF i <= 0 THEN list
  ELSE FisherYates(Swap(list, i, random[i]), i - 1, random)

\* the draws of Math.random() a shuffle of up to MaxSongs songs may see
RandomDraws ==
  {r \in [1..(MaxSongs - 1) -> 0..(MaxSongs - 1)] :
     \A i \in 1..(MaxSongs - 1) : r[i] <= i}

\* shuffle()
PMShuffle(w, random) ==
  [w EXCEPT !.pm.songs = FisherYates(@, Len(@) - 1, random),
            !.pm.currentIndex = 0]

\* the array without the element at (0-based) position i
RemoveAt(list, i) ==
  [k \in 1..(Len(list) - 1) |-> IF k <= i THEN list[k] ELSE list[k + 1]]

\* shuffleKeepingCurrent(currentSongId) of the PlaylistManager variant that
\* has it
PMShuffleKeepingCurrent(w, currentSongId, random) ==
  IF Len(w.pm.songs) <= 1 THEN w
  ELSE LET currentIndex == IF currentSongId # Null
                           THEN FindIndex(w.pm.songs, currentSongId) ELSE -1
           otherTracks == IF currentIndex >= 0
                          THEN RemoveAt(w.pm.songs, currentIndex)
                          ELSE w.pm.songs
           shuffled == FisherYates(otherTracks, Len(otherTracks) - 1, random)
       IN [w EXCEPT !.pm.songs =
                      IF currentIndex >= 0
                      THEN <<w.pm.songs[currentIndex + 1]>> \o shuffled
                      ELSE shuffled,
                    !.pm.currentIndex = 0]

\* addSong: the server answered with the created song
PMAddSong(w, created) == [w EXCEPT !.pm.songs = Append(@, created)]

\* deleteSong(id) of the PlaylistManager variant that has it: the server
\* confirmed the deletion
PMDeleteSong(w, id) ==
  LET rest == SelectSeq(w.pm.songs, LAMBDA x : x # id) IN
  [w EXCEPT !.pm.songs = rest,
            !.pm.currentIndex = IF @ >= Len(rest) THEN Max(0, Len(rest) - 1)
                                ELSE @]

\* refresh() / loadSongs(): a request goes out unless one is under way
PMLoadSongs(w) ==
  IF w.pm.loading THEN w   \* return this._lastLoadPromise
  ELSE [w EXCEPT !.pm.loading = TRUE, !.pm.req = w.pm.filters]

\* filter({artist, album, name}): the non-null arguments replace the
\* manager's filters, then refresh(); the caller awaits the promise
PMFilter(w, f) ==
  LET merged == [k \in DOMAIN NoFilters |->
                   IF f[k] # Null THEN f[k] ELSE w.pm.filters[k]]
      w1 == PMLoadSongs([w EXCEPT !.pm.filters = merged])
  IN [w1 EXCEPT !.pm.awaiting = @ \cup {merged}]

\* loadSongs(): the server answered with data
PMSongsLoaded(w, data) ==
  [w EXCEPT !.pm.songs = data,
            !.pm.currentIndex = IF @ >= Len(data) THEN 0 ELSE @,
            !.pm.loading = FALSE,
            !.pm.awaiting = {}]

(* ------------------------------ the store ----------------------------- *)
\* initializeAudioService, when the store has no service
InitializeAudioService(w) ==
  IF w.nsvc >= MaxSvc THEN [w EXCEPT !.overflow = TRUE]
  ELSE [w EXCEPT !.nsvc = @ + 1, !.svc[w.nsvc + 1] = NewService,
                 !.store.audioService = w.nsvc + 1]

\* initializePlaylistManager, when the store has none: the constructor
\* starts loadSongs(), then setSongs(rootState.tracks.tracks)
InitializePlaylistManager(w) ==
  [PMSetSongs([w EXCEPT !.pm = [NoPlaylistManager EXCEPT !.loading = TRUE],
                        !.store.hasPlaylistManager = TRUE], w.tracks)
     EXCEPT !.store.originalTrackOrder = w.tracks]

\* selectTrack after `await state.audioService.start(...)`
StoreAfterStart(w, c) ==
  LET a == w.store.audioService
      failed == [w EXCEPT !.store.isPlaying = FALSE, !.store.loadingTrack = FALSE]
  IN IF w.call[c].result # "true" THEN failed
     ELSE IF a = Null THEN failed   \* TypeError, caught by selectTrack
     ELSE LET w1 == [ServicePlay(w, a) EXCEPT !.store.isPlaying = TRUE] IN
          IF w1.svc[a].howl # Null
          THEN [w1 EXCEPT !.store.loadingTrack = FALSE] ELSE w1

\* selectTrack(track) up to its first wait
SelectTrack(w, id, t) ==
  LET st == w.store
      a == st.audioService
  IN
  IF /\ st.currentSong = id /\ a # Null /\ ~st.loadingTrack
     /\ w.svc[a].currentTrackId = id /\ w.svc[a].howl # Null
  THEN Schedule(w, "reselect")
  ELSE
  LET w1 == IF st.currentSong # id
            THEN StoreOnLoadProgress([w EXCEPT !.store.loadingTrack = TRUE],
                                     0, 0, 0)
            ELSE w
      w2 == [w1 EXCEPT !.store.currentSong = id]
      w3 == IF a = Null THEN InitializeAudioService(w2) ELSE w2
      w4 == IF ~w3.store.hasPlaylistManager
            THEN InitializePlaylistManager(w3) ELSE w3
      w5 == PMSetCurrentSong(w4, id)
  IN
  IF w5.overflow \/ w5.ncall >= w5.gh.selects THEN [w5 EXCEPT !.overflow = TRUE]
  ELSE
  LET w6 == Start(w5, w5.store.audioService, id, w5.store.volume, TRUE, t)
      c == w6.ncall
      last == w.gh.lastSel
      inWin == last.fetched /\ last.id = id /\ t - last.t < DEBOUNCE_MS
  IN
  IF w6.overflow THEN w6
  ELSE
  LET w7 == [w6 EXCEPT !.call[c].inWindow = inWin,
                       !.gh.lastSel =
                          IF w6.call[c].fetched \/ last.id # id
                          THEN [id |-> id, t |-> t, fetched |-> w6.call[c].fetched]
                          ELSE @]
  IN IF w7.call[c].pc = "done" THEN StoreAfterStart(w7, c) ELSE w7

\* playNextTrack
PlayNextTrack(w, t) ==
  IF ~w.store.hasPlaylistManager THEN w
  ELSE LET w1 == PMNext(w)
           nextSong == PMCurrentSong(w1)
           w2 == PMClampIndex(w1)
       IN IF nextSong # Null THEN SelectTrack(w2, nextSong, t) ELSE w2

\* playPreviousTrack; a call on a null audioService throws into the catch
PlayPreviousTrack(w, t) ==
  IF ~w.store.hasPlaylistManager THEN w
  ELSE IF w.store.currentTime > 3
       THEN IF w.store.audioService # Null
            THEN ServiceSeekToPosition(w, w.store.audioService, 0) ELSE w
       ELSE LET w1 == PMPrev(w)
                prevSong == PMCurrentSong(w1)
                w2 == PMClampIndex(w1)
            IN IF prevSong # Null THEN SelectTrack(w2, prevSong, t) ELSE w2

\* seekToPosition(positionPercent)
StoreSeekToPosition(w, positionPercent) ==
  IF w.store.audioService = Null \/ w.store.duration = 0
     \/ w.store.loadingTrack
  THEN w
  ELSE LET targetTime == (positionPercent * w.store.duration) \div 100
           w1 == [w EXCEPT !.store.currentTime = targetTime,
                           !.store.playbackProgress = positionPercent]
       IN ServiceSeekToPosition(w1, w1.store.audioService, positionPercent)

\* setVolume(event), event a number
StoreSetVolume(w, volume) ==
  LET normalizedVolume == Max(0, Min(100, volume))
      w1 == [w EXCEPT !.store.volume = normalizedVolume]
      w2 == IF normalizedVolume > 0 /\ w1.store.isMuted
            THEN [w1 EXCEPT !.store.isMuted = FALSE] ELSE w1
      w3 == IF normalizedVolume = 0 /\ ~w2.store.isMuted
            THEN [w2 EXCEPT !.store.isMuted = TRUE] ELSE w2
  IN IF w3.store.audioService # Null
     THEN ServiceSetVolume(w3, w3.store.audioService, normalizedVolume)
     ELSE w3

ToggleMuteStoreOnly(w) ==
  IF w.store.isMuted
  THEN [w EXCEPT !.store.volume = IF w.store.previousVolume > 0
                                  THEN w.store.previousVolume
                                  ELSE StoreDefaultVolume,
                 !.store.isMuted = FALSE]
  ELSE [w EXCEPT !.store.previousVolume = w.store.volume,
                 !.store.volume = 0, !.store.isMuted = TRUE]

\* toggleMute
ToggleMuteBody(w) ==
  LET a == w.store.audioService IN
  IF w.store.isMuted
  THEN LET volumeToRestore == IF w.store.previousVolume > 0
                              THEN w.store.previousVolume
                              ELSE StoreDefaultVolume
           w1 == [w EXCEPT !.store.volume = volumeToRestore,
                           !.store.isMuted = FALSE]
       IN IF a # Null THEN ServiceSetVolume(w1, a, volumeToRestore) ELSE w1
  ELSE LET w1 == [w EXCEPT !.store.previousVolume = w.store.volume,
                           !.store.volume = 0, !.store.isMuted = TRUE]
       IN IF a # Null THEN ServiceSetVolume(w1, a, 0) ELSE w1

\* toggleShuffle, shuffle switched on: from SET_ORIGINAL_TRACK_ORDER on.
\* Reading playlistManager.tracks of a manager without that property yields
\* undefined, and spreading undefined throws out of the action.
ShuffleOn(w, random) ==
  IF ~PlaylistManagerHasTracks THEN w
  ELSE
  LET list == w.pm.songs
      currentTrackIndex == IF w.store.currentSong # Null
                           THEN FindIndex(list, w.store.currentSong) ELSE -1
      otherTracks == IF currentTrackIndex >= 0
                     THEN RemoveAt(list, currentTrackIndex) ELSE list
      shuffled == FisherYates(otherTracks, Len(otherTracks) - 1, random)
      shuffledTracks == IF currentTrackIndex >= 0
                        THEN <<list[currentTrackIndex + 1]>> \o shuffled
                        ELSE shuffled
      w1 == PMSetSongs([w EXCEPT !.store.originalTrackOrder = list],
                       shuffledTracks)
  IN [w1 EXCEPT !.pm.currentIndex = 0, !.tracks = shuffledTracks]

\* toggleShuffle, shuffle switched off
ShuffleOff(w) ==
  IF Len(w.store.originalTrackOrder) = 0 THEN w
  ELSE LET w1 == [PMSetSongs(w, w.store.originalTrackOrder)
                    EXCEPT !.tracks = w.store.originalTrackOrder]
       IN IF w1.store.currentSong # Null
          THEN PMSetCurrentSong(w1, w1.store.currentSong) ELSE w1

\* toggleShuffle; the history keeps what the playlist was when shuffle was
\* switched on
ToggleShuffleBody(w, random) ==
  LET newShuffleState == ~w.store.isShuffleActive
      w1 == [w EXCEPT !.store.isShuffleActive = newShuffleState]
      w2 == IF ~w1.store.hasPlaylistManager
            THEN InitializePlaylistManager(w1) ELSE w1
  IN IF newShuffleState
     THEN ShuffleOn([w2 EXCEPT !.gh.atShuffle =
                       [active |-> TRUE, songs |-> w2.pm.songs,
                        current |->
                          IF FindIndex(w2.pm.songs, w2.store.currentSong) >= 0
                          THEN w2.store.currentSong ELSE Null]], random)
     ELSE ShuffleOff([w2 EXCEPT !.gh.atShuffle = InitialHistory.atShuffle])

\* updatePlaylistFromTracks
UpdatePlaylistFromTracks(w) ==
  IF ~w.store.hasPlaylistManager THEN w
  ELSE LET w1 == PMSetSongs(w, w.tracks) IN
       IF ~w1.store.isShuffleActive
       THEN [w1 EXCEPT !.store.originalTrackOrder = w.tracks] ELSE w1

\* togglePlayback
TogglePlaybackBody(w) ==
  LET a == w.store.audioService IN
  IF a = Null \/ w.store.loadingTrack THEN w
  ELSE LET shouldPlay == ~w.store.isPlaying
           w1 == IF shouldPlay THEN ServicePlay(w, a) ELSE ServicePause(w, a)
       IN [w1 EXCEPT !.store.isPlaying = shouldPlay]

\* stopTrack
StopTrackBody(w) ==
  LET a == w.store.audioService
      w1 == IF a # Null /\ w.svc[a].howl # Null
            THEN HowlStop(w, w.svc[a].howl) ELSE w
  IN [w1 EXCEPT !.store.currentSong = Null, !.store.isPlaying = FALSE,
                !.store.currentTime = 0, !.store.duration = 0,
                !.store.playbackProgress = 0]

\* destroyPlayer
DestroyPlayerBody(w) ==
  LET a == w.store.audioService
      w1 == IF a # Null THEN ServiceDestroy(w, a) ELSE w
  IN [w1 EXCEPT !.store.audioService = Null,
                !.store.hasPlaylistManager = FALSE,
                !.pm = NoPlaylistManager,
                !.store.currentSong = Null,
                !.store.isPlaying = FALSE,
                !.store.currentTime = 0, !.store.duration = 0,
                !.store.playbackProgress = 0,
                !.store.chunksLoaded = 0, !.store.totalChunks = 0,
                !.store.loadProgress = 0,
                !.store.repeatMode = "off",
                !.store.isShuffleActive = FALSE,
                !.gh.atShuffle = InitialHistory.atShuffle,
                !.gh.lastSel = [id |-> Null, t |-> 0, fetched |-> FALSE]]

RepeatOneWithoutSeek(w) ==
  LET a == w.store.audioService IN
  IF a # Null /\ w.svc[a].howl # Null /\ w.store.currentSong # Null
  THEN [HowlPlay(w, w.svc[a].howl)
          EXCEPT !.store.isPlaying = TRUE,
                 !.gh.repeated = IF w.howl[w.svc[a].howl].pos = TrackDuration
                                 THEN w.svc[a].howl ELSE @]
  ELSE w

\* onPlaybackEnd, repeat one: the callback of its setTimeout(..., 100)
RepeatOneRestart(w) ==
  LET a == w.store.audioService IN
  IF a # Null /\ w.svc[a].howl # Null /\ w.store.currentSong # Null
  THEN [HowlPlay(HowlSeekStart(w, w.svc[a].howl), w.svc[a].howl)
          EXCEPT !.store.isPlaying = TRUE,
                 !.gh.repeated = IF w.howl[w.svc[a].howl].pos = TrackDuration
                                 THEN w.svc[a].howl ELSE @]
  ELSE w

ReselectWithoutSeek(w) ==
  LET a == w.store.audioService IN
  IF a # Null /\ w.svc[a].howl # Null /\ ~w.store.isPlaying
  THEN [ServicePlay(w, a) EXCEPT !.store.isPlaying = TRUE]
  ELSE w

\* selectTrack, same track already loaded: the callback of setTimeout(..., 100)
ReselectRestart(w) ==
  LET a == w.store.audioService IN
  IF a # Null /\ w.svc[a].howl # Null
  THEN LET w1 == HowlSeekStart(w, w.svc[a].howl) IN
       IF ~w1.store.isPlaying
       THEN [ServicePlay(w1, a) EXCEPT !.store.isPlaying = TRUE]
       ELSE w1
  ELSE w

(* -------------------- start(): after the load settles ------------------ *)
RECURSIVE ResumeAwaiters(_, _, _)
\* the calls waiting in `await this.loadingPromise` for load c, in call order
ResumeAwaiters(w, c, k) ==
  IF k > MaxCalls THEN w
  ELSE IF w.call[k].pc = "await" /\ w.call[k].joined = c
  THEN LET r == IF w.call[c].result = "true" THEN "true" ELSE "throw"
           w1 == [w EXCEPT !.call[k] = Returned(@, r)]
           w2 == IF w1.call[k].viaStore THEN StoreAfterStart(w1, k) ELSE w1
       IN ResumeAwaiters(w2, c, k + 1)
  ELSE ResumeAwaiters(w, c, k + 1)

\* start() returns r to its caller
Finish(w, c, r) ==
  LET w1 == [w EXCEPT !.call[c] = Returned(@, r)]
      w2 == IF w1.call[c].viaStore THEN StoreAfterStart(w1, c) ELSE w1
  IN ResumeAwaiters(w2, c, 1)

\* start(): the statements after `await this.loadingPromise`
StartSucceeded(w, c) ==
  LET s == w.call[c].svc
      w1 == [w EXCEPT !.svc[s].loadingPromise = Null,
                      !.svc[s].isLoading = FALSE,
                      !.svc[s].isStarting = FALSE]
  IN Finish(StoreOnLoadComplete(Emitted(w1, c)), c, "true")

\* start(): its catch block
StartFailed(w, c) ==
  LET s == w.call[c].svc
      w1 == [w EXCEPT !.svc[s].isLoading = FALSE, !.svc[s].isStarting = FALSE]
  IN Finish(CleanupPreviousTrack(w1, s), c, "false")

(* ----------------------- the chunk loader ----------------------------- *)
Batches(totalChunks) == (totalChunks + BATCH_SIZE - 1) \div BATCH_SIZE

ChunksInBatchUnclamped(batchIndex, totalChunks) == BATCH_SIZE

\* chunk_count of batch batchIndex
ChunksInBatch(batchIndex, totalChunks) ==
  Min(batchIndex * BATCH_SIZE + BATCH_SIZE, totalChunks) - batchIndex * BATCH_SIZE

\* _loadAndCreatePlayer after loadAllChunks returned
AfterAllChunks(w, c) ==
  LET s == w.call[c].svc
      id == w.call[c].track
  IN IF w.svc[s].isDestroyed THEN StartFailed(w, c)   \* 'Loading cancelled'
     ELSE LET blob == CreateBlobFromChunks(id, w.call[c].loaded,
                                           w.call[c].chunks)
              metadata == [track |-> id, total_chunks |-> w.call[c].total]
          IN CreateHowlFromBlob(CacheSet(w, s, c, blob, metadata), s, c, blob)

\* loadAllChunks: the head of its for loop
NextBatch(w, c) ==
  LET s == w.call[c].svc IN
  IF w.call[c].batch < Batches(w.call[c].total) /\ ~w.svc[s].isDestroyed
  THEN [w EXCEPT !.call[c].pc = "chunk",
                 !.call[c].req =
                   [chunk_index |-> w.call[c].batch * BATCH_SIZE,
                    chunk_count |-> ChunksInBatch(w.call[c].batch,
                                                  w.call[c].total)]]
  ELSE AfterAllChunks([w EXCEPT !.call[c].req = NoRequest], c)

\* _loadAndCreatePlayer after getTrackMetadata returned total_chunks
OnMetadataWith(w, c, total_chunks) ==
  NextBatch([w EXCEPT !.call[c].total = total_chunks,
                      !.call[c].batch = 0, !.call[c].loaded = 0], c)

OnMetadata(w, c) ==
  OnMetadataWith(w, c, IF w.call[c].track = 1 THEN LongTrackChunks
                       ELSE ShortTrackChunks)

\* loadAllChunks: this.onLoadProgress(loadedChunks.length, totalChunks,
\* progress), as the store receives it and as the history records it
OnLoadProgress(w, c, loaded, totalChunks) ==
  LET progress == (loaded * 100) \div totalChunks
      w1 == StoreOnLoadProgress(Emitted(w, c), loaded, totalChunks, progress)
  IN [w1 EXCEPT !.gh.emitted =
        Append(@, [loaded |-> loaded, total |-> totalChunks,
                   percent |-> progress])]

\* loadAllChunks: the loop over data.chunks, for the k chunks still to decode
RECURSIVE ProcessChunks(_, _, _)
ProcessChunks(w, c, k) ==
  IF k = 0 THEN w
  ELSE LET w1 == [w EXCEPT !.call[c].loaded = @ + 1] IN
       ProcessChunks(OnLoadProgress(w1, c, w1.call[c].loaded, w1.call[c].total),
                     c, k - 1)

OnChunksReportingPerBatch(w, c) ==
  LET n == w.call[c].req.chunk_count
      w1 == [w EXCEPT !.call[c].loaded = @ + n, !.call[c].batch = @ + 1]
      w2 == IF n > 0
            THEN OnLoadProgress(w1, c, w1.call[c].loaded, w1.call[c].total)
            ELSE w1
  IN NextBatch(w2, c)

\* loadAllChunks: a batch response with the chunks asked for
OnChunks(w, c) ==
  LET w1 == ProcessChunks(w, c, w.call[c].req.chunk_count) IN
  NextBatch([w1 EXCEPT !.call[c].batch = @ + 1], c)

\* the same for a response whose chunks carry bytes
OnChunksWith(w, c, data_chunks) ==
  OnChunks([w EXCEPT !.call[c].chunks = PushChunks(@, data_chunks)], c)

(* ------------------------------ actions ------------------------------- *)
Step(w) == Commit(w) /\ now' = now

\* the clock advances
Tick ==
  /\ now < StartTime + MaxTicks * TickMs
  /\ now' = now + TickMs
  /\ gh' = [gh EXCEPT !.last = NoEvent, !.emitted = <<>>, !.plays = 0]
  /\ UNCHANGED <<audioCache, svc, howl, call, ncall, nsvc, store, pm, tracks,
                 timers, retry>>

(* network: ApiService.streamAudio settles *)
MetadataResponse(c) == call[c].pc = "meta" /\ Step(OnMetadata(World, c))

\* the same for a track of n chunks
MetadataResponseOf(c, n) ==
  call[c].pc = "meta" /\ Step(OnMetadataWith(World, c, n))

MetadataFailure(c) == call[c].pc = "meta" /\ Step(StartFailed(World, c))

ChunkResponse(c) == call[c].pc = "chunk" /\ Step(OnChunks(World, c))

(* The streamer is outside the repository.  A track of n chunks is a file  *)
(* of n * ChunkSizeOf(id) bytes cut into chunks of that size; a response   *)
(* carries the chunks asked for, each base64-encoded.                      *)
ChunkSizeOf(id) == IF id = 1 THEN 4 ELSE 2

OriginalByte(id, offset) == (offset * 37 + id * 101) % 256

OriginalChunk(id, i) ==
  [k \in 1..ChunkSizeOf(id) |-> OriginalByte(id, i * ChunkSizeOf(id) + k - 1)]

RECURSIVE Btoa(_)
Btoa(bytes) ==
  IF bytes = <<>> THEN <<>>
  ELSE LET b(i) == IF i <= Len(bytes) THEN bytes[i] ELSE 0
           bits == (b(1) * 256 + b(2)) * 256 + b(3)
           four == <<bits \div 262144, (bits \div 4096) % 64,
                     IF Len(bytes) < 2 THEN Pad ELSE (bits \div 64) % 64,
                     IF Len(bytes) < 3 THEN Pad ELSE bits % 64>>
       IN four \o (IF Len(bytes) <= 3 THEN <<>>
                   ELSE Btoa(SubSeq(bytes, 4, Len(bytes))))

StreamedChunks(id, req) ==
  [i \in 1..req.chunk_count |->
     Btoa(OriginalChunk(id, req.chunk_index + i - 1))]

ChunkDataResponse(c) ==
  /\ call[c].pc = "chunk"
  /\ Step(OnChunksWith(World, c, StreamedChunks(call[c].track, call[c].req)))

ChunkFailure(c) == call[c].pc = "chunk" /\ Step(StartFailed(World, c))

(* Howl events *)
\* load: the onload option, then the once('load') that resolves the promise
HowlLoaded(h) ==
  /\ howl[h].state = "loading"
  /\ LET s == howl[h].svc
         w1 == [World EXCEPT !.howl[h].state = "loaded"]
         w2 == IF w1.svc[s].howl # Null THEN HowlPlay(w1, w1.svc[s].howl) ELSE w1
     IN Step(Mark(StartSucceeded(w2, h), "loaded", h, 0))

\* loaderror: the onloaderror option, then the once('loaderror') that rejects
HowlLoadError(h) ==
  /\ howl[h].state = "loading"
  /\ Step(StartFailed(OnLoadError(World, h), h))

HowlPlayStarted(h) ==
  /\ howl[h].state = "loaded" /\ howl[h].playReq > 0
  /\ Step(OnPlay([World EXCEPT !.howl[h].playReq = @ - 1,
                               !.howl[h].playing = TRUE,
                               !.howl[h].retries = 0], h))

HowlPlayFailed(h) ==
  /\ howl[h].state = "loaded" /\ howl[h].playReq > 0
  /\ howl[h].retries < MaxPlayErrors
  /\ Step(OnPlayError([World EXCEPT !.howl[h].playReq = @ - 1], h))

\* the track plays to its end
HowlEnded(h) ==
  /\ howl[h].state = "loaded" /\ howl[h].playing
  /\ Step(OnEnd([World EXCEPT !.howl[h].playing = FALSE,
                             !.howl[h].pos = TrackDuration,
                             !.gh.manual = Null], h))

(* timers *)
\* the setInterval callback of startProgressTracking
ProgressTick(s) ==
  /\ svc[s].progressInterval
  /\ IF svc[s].howl = Null \/ svc[s].isDestroyed
     THEN Step(StopProgressTracking(World, s))
     ELSE LET h == svc[s].howl
              currentTime == howl[h].pos
              duration == HowlDuration(World, h)
          IN Step(StoreOnProgressUpdate(World, currentTime, duration,
                    IF duration > 0 THEN (currentTime * 100) \div duration
                    ELSE 0))

\* start, same track: setTimeout(..., 50)
RestartTimer(s) ==
  /\ timers.restart[s] > 0
  /\ LET w == [World EXCEPT !.timers.restart[s] = @ - 1] IN
     Step(IF w.svc[s].howl # Null /\ ~w.svc[s].isDestroyed
          THEN HowlPlay(w, w.svc[s].howl) ELSE w)

\* onplayerror: setTimeout(..., 100)
RetryTimer(s) ==
  /\ timers.retry[s] > 0
  /\ LET w == [World EXCEPT !.timers.retry[s] = @ - 1]
         h == w.svc[s].howl
     IN Step(IF h # Null /\ ~w.svc[s].isDestroyed /\ ~w.svc[s].isPlaying
             THEN [HowlPlay(w, h) EXCEPT !.howl[h].retries = @ + 1]
             ELSE w)

\* the history keeps the position the callback found the handle at
ReselectTimer ==
  /\ timers.reselect > 0
  /\ LET a == store.audioService
         h == IF a = Null THEN Null ELSE svc[a].howl
     IN Step(Mark(ReselectRestart([World EXCEPT !.timers.reselect = @ - 1]),
                  "reselect", h, IF h = Null THEN 0 ELSE howl[h].pos))

RepeatOneTimer ==
  /\ timers.repeatOne > 0
  /\ Step(RepeatOneRestart([World EXCEPT !.timers.repeatOne = @ - 1,
                                          !.gh.manual = Null]))

\* onPlaybackEnd, repeat all / off: setTimeout(() => dispatch('playNextTrack'), 500)
NextTimer ==
  /\ timers.next > 0
  /\ Step(Mark(PlayNextTrack([World EXCEPT !.timers.next = @ - 1,
                                           !.gh.manual = Null], now),
               "next", pm.currentIndex, 0))

(* PlaylistManager.loadSongs settles: the server answers with the catalog *)
LoadSongsResponse == pm.loading /\ Step(PMSongsLoaded(World, Catalog))

\* the same for a server that holds the songs of list
LoadSongsResponseWith(list) ==
  pm.loading /\ Step(Mark(PMSongsLoaded(World, list), "loaded songs", 0, 0))

(* public methods of a PlaylistManager, called by a client.  A step that   *)
(* moves the index records the index it found.                             *)
ClientSetSongs(list) ==
  Step(Mark(PMSetSongs(World, list), "setSongs", pm.currentIndex, 0))

ClientSetCurrentSong(id) ==
  Step(Mark(PMSetCurrentSong(World, id), "setCurrentSong", pm.currentIndex, 0))

ClientGetCurrentSong ==
  Step(Mark(PMClampIndex(World), "getCurrentSong", pm.currentIndex, 0))

ClientNext == Step(Mark(PMNext(World), "next()", pm.currentIndex, 0))

ClientPrev == Step(Mark(PMPrev(World), "prev()", pm.currentIndex, 0))

ClientShuffle(random) ==
  Step(Mark(PMShuffle(World, random), "shuffle", pm.currentIndex, 0))

ClientShuffleKeepingCurrent(id, random) ==
  Step(Mark(PMShuffleKeepingCurrent(World, id, random), "shuffleKeeping",
            pm.currentIndex, 0))

ClientRefresh == ~pm.loading /\ Step(PMLoadSongs(World))

\* addSong settles with a song the list does not hold yet
AddSongResponse(created) ==
  /\ Len(pm.songs) < MaxSongs
  /\ \A i \in 1..Len(pm.songs) : pm.songs[i] # created
  /\ Step(Mark(PMAddSong(World, created), "addSong", pm.currentIndex, 0))

DeleteSongResponse(id) ==
  Step(Mark(PMDeleteSong(World, id), "deleteSong", pm.currentIndex, 0))

(* store actions dispatched by the components *)
UserSelectTrack(id) == Step(SelectTrack(World, id, now))

\* the same while a callback of onPlaybackEnd is pending; the history
\* keeps the track named
UserSelectTrackAfterEnd(id) ==
  /\ timers.next > 0 \/ timers.repeatOne > 0
  /\ Step([SelectTrack(World, id, now) EXCEPT !.gh.manual = id])

UserTogglePlayback ==
  LET a == store.audioService
      h == IF a = Null THEN Null ELSE svc[a].howl
  IN Step(Mark(TogglePlaybackBody(World), "toggle", h,
               IF h # Null /\ howl[h].playing THEN 1 ELSE 0))

UserPlayNextTrack == Step(PlayNextTrack(World, now))

\* toggleRepeat
UserToggleRepeat ==
  Step([World EXCEPT !.store.repeatMode =
          CASE @ = "off" -> "all" [] @ = "all" -> "one" [] OTHER -> "off"])

UserStopTrack == Step(StopTrackBody(World))

UserSetVolume(v) == Step(StoreSetVolume(World, v))

\* the history keeps whether the step found the store muted (1) and the
\* volume it found
UserToggleMute ==
  Step(Mark(ToggleMuteBody(World), "toggleMute",
            IF store.isMuted THEN 1 ELSE 0, store.volume))

UserSeekToPosition(p) == Step(Mark(StoreSeekToPosition(World, p), "seek", p, 0))

UserPlayPreviousTrack == Step(PlayPreviousTrack(World, now))

UserDestroyPlayer == Step(DestroyPlayerBody(World))

\* the history keeps whether shuffle was switched on (1) or off (0) and the
\* index the step found
UserToggleShuffle(random) ==
  Step(Mark(ToggleShuffleBody(World, random), "toggleShuffle",
            IF store.isShuffleActive THEN 0 ELSE 1, pm.currentIndex))

(* the tracks module *)
\* fetchSongs / applyFilters settle: SET_TRACKS, then the player's
\* updatePlaylistFromTracks
TracksApplied(list) ==
  Step(UpdatePlaylistFromTracks([World EXCEPT !.tracks = list]))

(* public methods of one service, called by a client *)
ClientStart(s, id) ==
  /\ svc[s].created
  /\ Step(Start(World, s, id, NoVolume, FALSE, now))

ClientDestroy(s) == svc[s].created /\ Step(ServiceDestroy(World, s))

ClientPlayAndPause(s) == svc[s].created /\ Step(ServicePlayAndPause(World, s))

ClientPause(s) == svc[s].created /\ Step(ServicePause(World, s))

ClientStop(s) == svc[s].created /\ Step(ServiceStop(World, s))

(* --------------------------- specifications --------------------------- *)
Network ==
  \E c \in Calls :
    \/ MetadataResponse(c)
    \/ MetadataFailure(c)
    \/ ChunkResponse(c)
    \/ ChunkFailure(c)

\* the events of a handle whose plays all start
HowlEvents ==
  \E h \in Calls :
    \/ HowlLoaded(h)
    \/ HowlLoadError(h)
    \/ HowlPlayStarted(h)
    \/ HowlEnded(h)

Next ==
  \/ Tick
  \/ Network
  \/ HowlEvents
  \/ \E s \in Svcs : RestartTimer(s)
  \/ ReselectTimer
  \/ RepeatOneTimer
  \/ NextTimer
  \/ LoadSongsResponse
  \/ \E id \in Tracks : UserSelectTrack(id)
  \/ UserTogglePlayback
  \/ UserPlayNextTrack
  \/ UserToggleRepeat
  \/ UserStopTrack
  \/ UserDestroyPlayer

Spec == Init /\ [][Next]_vars

\* the store has run initializeAudioService; a client drives that service
SvcInit ==
  /\ now = StartTime
  /\ audioCache = EmptyCache
  /\ svc = [s \in Svcs |-> IF s = 1 THEN NewService ELSE NoService]
  /\ howl = [h \in Calls |-> NoHowl]
  /\ call = [c \in Calls |-> NoCall]
  /\ ncall = 0
  /\ nsvc = 1
  /\ store = [InitialStore EXCEPT !.audioService = 1]
  /\ pm = NoPlaylistManager
  /\ tracks = Catalog
  /\ timers = NoTimers
  /\ retry = NoRetry
  /\ gh = InitialHistory

SvcNext ==
  \/ Tick
  \/ Network
  \/ HowlEvents
  \/ \E s \in Svcs : ProgressTick(s) \/ RestartTimer(s)
  \/ \E id \in Tracks : ClientStart(1, id)
  \/ ClientDestroy(1)
  \/ ClientPlayAndPause(1)
  \/ ClientPause(1)
  \/ ClientStop(1)

SvcSpec == SvcInit /\ [][SvcNext]_vars

\* a client loads MaxPlayCalls tracks on one service and uses the transport;
\* the environment may fail any play
PlayNext ==
  \/ Tick
  \/ Network
  \/ HowlEvents
  \/ ProgressTick(1)
  \/ \E h \in Calls : HowlPlayFailed(h)
  \/ RetryTimer(1)
  \/ \E id \in Tracks : ncall < MaxPlayCalls /\ ClientStart(1, id)
  \/ ClientPlayAndPause(1)
  \/ ClientPause(1)
  \/ ClientStop(1)

PlaySpec == SvcInit /\ [][PlayNext]_vars

\* one load of a track of any size up to MaxTotalChunks, possibly cut short
\* by a failed batch or by destroy()
LoadNext ==
  \/ \E id \in Tracks : ncall < MaxPlayCalls /\ ClientStart(1, id)
  \/ \E c \in Calls : \E n \in 0..MaxTotalChunks : MetadataResponseOf(c, n)
  \/ \E c \in Calls : ChunkResponse(c) \/ ChunkFailure(c)
  \/ \E h \in Calls : HowlLoaded(h) \/ HowlPlayStarted(h)
  \/ ClientDestroy(1)

LoadSpec == SvcInit /\ [][LoadNext]_vars

\* one load whose responses carry the track's bytes
AssembleNext ==
  \/ \E id \in Tracks : ncall < MaxPlayCalls /\ ClientStart(1, id)
  \/ \E c \in Calls : \E n \in 0..MaxTotalChunks : MetadataResponseOf(c, n)
  \/ \E c \in Calls : ChunkDataResponse(c)
  \/ \E h \in Calls : HowlLoaded(h)

AssembleSpec == SvcInit /\ [][AssembleNext]_vars

\* the store loads tracks while the user moves the volume slider

VolNext ==
  \/ Tick
  \/ Network
  \/ \E h \in Calls : HowlLoaded(h) \/ HowlLoadError(h) \/ HowlPlayStarted(h)
  \/ ProgressTick(1)
  \/ \E id \in Tracks : UserSelectTrack(id)
  \/ \E v \in {0 - 10, 30, 120} : UserSetVolume(v)

VolSpec == Init /\ [][VolNext]_vars

\* the same with the mute button, and with the player destroyed and set up
\* again; the slider is moved below and above its range

MuteNext ==
  \/ \E c \in Calls : MetadataResponse(c) \/ ChunkResponse(c)
  \/ \E h \in Calls : HowlLoaded(h)
  \/ \E id \in Tracks : UserSelectTrack(id)
  \/ \E v \in {0 - 10, 120} : UserSetVolume(v)
  \/ UserToggleMute
  \/ UserDestroyPlayer

MuteSpec == Init /\ [][MuteNext]_vars

\* the store loads tracks while the user works the transport: progress bar,
\* previous, play/pause; playAndPause and pause are also called directly

SeekInit ==
  /\ now = StartTime
  /\ audioCache = EmptyCache
  /\ svc = [s \in Svcs |-> NoService]
  /\ howl = [h \in Calls |-> NoHowl]
  /\ call = [c \in Calls |-> NoCall]
  /\ ncall = 0
  /\ nsvc = 0
  /\ store = InitialStore
  /\ pm = NoPlaylistManager
  /\ tracks = Catalog
  /\ timers = NoTimers
  /\ retry = NoRetry
  /\ gh = [InitialHistory EXCEPT !.selects = MaxSeekSelects]

SeekNext ==
  \/ \E c \in Calls : MetadataResponse(c) \/ ChunkResponse(c)
  \/ \E h \in Calls : HowlLoaded(h) \/ HowlPlayStarted(h)
  \/ ProgressTick(1)
  \/ LoadSongsResponse
  \/ \E id \in Tracks : UserSelectTrack(id)
  \/ \E p \in {50, 100} : UserSeekToPosition(p)
  \/ UserPlayPreviousTrack
  \/ UserTogglePlayback
  \/ ClientPlayAndPause(1) \/ ClientPause(1)

SeekSpec == SeekInit /\ [][SeekNext]_vars

\* tracks play to their end while the user selects tracks and switches the
\* repeat mode; every request and every handle succeeds
AdvanceNext ==
  \/ \E c \in Calls : MetadataResponse(c) \/ ChunkResponse(c)
  \/ \E h \in Calls : HowlLoaded(h) \/ HowlPlayStarted(h) \/ HowlEnded(h)
  \/ ReselectTimer
  \/ RepeatOneTimer
  \/ NextTimer
  \/ \E id \in Tracks :
       /\ timers.next = 0 /\ timers.repeatOne = 0
       /\ UserSelectTrack(id)
  \/ \E id \in Tracks : UserSelectTrackAfterEnd(id)
  \/ UserToggleRepeat

AdvanceSpec == SeekInit /\ [][AdvanceNext]_vars

\* a client works one PlaylistManager; the lists it is given and the
\* server's answers are any lists of distinct songs
SongIds == 1..MaxSongs

SongLists ==
  {l \in UNION {[1..n -> SongIds] : n \in 0..MaxSongs} :
     \A i, j \in 1..Len(l) : l[i] = l[j] => i = j}

PlInit ==
  /\ now = StartTime
  /\ audioCache = EmptyCache
  /\ svc = [s \in Svcs |-> NoService]
  /\ howl = [h \in Calls |-> NoHowl]
  /\ call = [c \in Calls |-> NoCall]
  /\ ncall = 0
  /\ nsvc = 0
  /\ store = InitialStore
  /\ pm = PMLoadSongs([pm |-> NoPlaylistManager]).pm
  /\ tracks = Catalog
  /\ timers = NoTimers
  /\ retry = NoRetry
  /\ gh = InitialHistory

PlNext ==
  \/ \E list \in SongLists : ClientSetSongs(list) \/ LoadSongsResponseWith(list)
  \/ \E id \in SongIds :
       \/ ClientSetCurrentSong(id)
       \/ AddSongResponse(id)
       \/ DeleteSongResponse(id)
  \/ ClientGetCurrentSong
  \/ ClientNext
  \/ ClientPrev
  \/ ClientRefresh
  \/ \E random \in RandomDraws :
       \/ ClientShuffle(random)
       \/ \E id \in SongIds \cup {Null} : ClientShuffleKeepingCurrent(id, random)

PlSpec == PlInit /\ [][PlNext]_vars

\* the store selects tracks and switches shuffle while the tracks module
\* replaces its list with the result of a filter.  The server holds
\* AllSongs; a filter keeps some of them, in their order.
AllSongs == [i \in 1..MaxSongs |-> i]

RECURSIVE Keep(_, _)
Keep(list, ids) ==
  IF list = <<>> THEN <<>>
  ELSE IF Head(list) \in ids THEN <<Head(list)>> \o Keep(Tail(list), ids)
  ELSE Keep(Tail(list), ids)

\* GET songs/ with the non-null parameters: the songs that match them all.
\* Song i is by artist 1 + (i - 1) % 2, on album 1 + (i - 1) \div 2, and
\* a name parameter n matches song n only.
FetchSongs(params) ==
  SelectSeq(AllSongs,
            LAMBDA i : /\ params.artist \in {Null, 1 + ((i - 1) % 2)}
                       /\ params.album \in {Null, 1 + ((i - 1) \div 2)}
                       /\ params.name \in {Null, i})

\* the server answers the request that is out
SongsResponse == pm.loading /\ Step(PMSongsLoaded(World, FetchSongs(pm.req)))

ClientFilter(f) ==
  /\ Cardinality(pm.awaiting) < MaxFilterCalls
  /\ Step(PMFilter(World, f))

\* a client filters and refreshes one PlaylistManager, from its constructor on
FilterNext ==
  \/ SongsResponse
  \/ ClientRefresh
  \/ \E a \in {Null, 1, 2}, b \in {Null, 1}, n \in {Null, 3} :
       ClientFilter([artist |-> a, album |-> b, name |-> n])

FilterSpec == PlInit /\ [][FilterNext]_vars

ShuffleNext ==
  \/ LoadSongsResponseWith(AllSongs)
  \/ \E id \in Tracks : UserSelectTrack(id)
  \/ UserDestroyPlayer
  \/ \E ids \in SUBSET SongIds : TracksApplied(Keep(AllSongs, ids))
  \/ \E random \in RandomDraws : UserToggleShuffle(random)

ShuffleSpec == Init /\ [][ShuffleNext]_vars

(* ------------------------------ properties ---------------------------- *)
Live(h) == howl[h].state \in {"loading", "loaded"}

Fetching(c) == FetchPending(call[c])

(* C1: the cache holds at most one entry; a lookup for track X finds an    *)
(* entry iff X is the id of the latest cache write that no clearing        *)
(* followed, and the entry found carries the buffer and the metadata of    *)
(* track X itself.                                                         *)
C1_CacheServesLatestWrite ==
  /\ Cardinality({X \in Tracks : CacheGet(audioCache, X).found}) <= 1
  /\ \A X \in Tracks :
       LET e == CacheGet(audioCache, X) IN
       /\ e.found <=> X = gh.lastSet
       /\ e.found => /\ e.blob.track = X
                     /\ e.metadata.track = X
                     /\ e.blob.chunks = e.metadata.total_chunks

\* a load of one track replaced, in the cache, the entry another load wrote
\* for the other track
C1_Witness ==
  \E X \in Tracks, c \in Calls :
    /\ CacheGet(audioCache, X).found
    /\ call[c].wroteCache /\ call[c].track # X

(* C2: at most one Howl handle that was created and not yet unloaded       *)
(* exists.                                                                 *)
C2_OneLiveHandle == Cardinality({h \in Calls : Live(h)}) <= 1

\* a handle is live after an earlier one was unloaded, while a third load
\* is still fetching
C2_Witness ==
  \E h1, h2, c \in Calls :
    /\ howl[h1].state = "unloaded" /\ Live(h2) /\ Fetching(c)

(* C3: two loads of the same track id on one service are never fetching    *)
(* at the same time.                                                       *)
C3_NoConcurrentLoadsOfOneTrack ==
  \A c1, c2 \in Calls :
    (c1 # c2 /\ Fetching(c1) /\ Fetching(c2) /\ call[c1].svc = call[c2].svc)
      => call[c1].track # call[c2].track

(* C4: a start for a track whose load is in flight on that service returns *)
(* only once that load has finished, with that load's outcome.             *)
C4_SecondStartAwaitsLoad ==
  \A c \in Calls :
    (call[c].dupOf # Null /\ call[c].pc = "done")
      => /\ call[call[c].dupOf].pc = "done"
         /\ call[c].result = call[call[c].dupOf].result

(* C5: a selectTrack that follows, within 500 ms and for the same track,   *)
(* a selectTrack that started a fetch sequence starts no fetch sequence,   *)
(* whether that first load is still running, finished or failed.           *)
C5_OneFetchPerWindow ==
  \A c \in Calls : call[c].inWindow => ~call[c].fetched

\* the second selectTrack arrived after the first one's load had failed
C5_Witness ==
  \E c, d \in Calls :
    /\ d < c /\ call[c].inWindow /\ call[c].track = call[d].track
    /\ call[d].fetched /\ call[d].result = "false" /\ call[c].pc = "done"

(* C6: a load that destroy() interrupted before its fetch completed        *)
(* writes nothing to the cache and leaves no live handle, whatever         *)
(* follows the destroy.                                                    *)
C6_DestroyedLoadLeavesNothing ==
  \A c \in Calls : call[c].cancelled => (~call[c].wroteCache /\ ~Live(c))

(* C7: no callback is emitted for a load that destroy() interrupted        *)
(* before its fetch completed.                                             *)
C7_NoCallbackAfterDestroy == ~gh.lateCb

(* C8: when the metadata request or a chunk batch of the only load in     *)
(* flight fails, isLoading, isStarting, loadingPromise and the store's     *)
(* loadingTrack are cleared, start returns false, the load fetches         *)
(* nothing further, the service holds no handle and the cache holds        *)
(* nothing of the failed track.                                            *)
C8_FailureClearsMarkers ==
  [][\A c \in Calls :
       (/\ MetadataFailure(c) \/ ChunkFailure(c)
        /\ call[c].svc = store.audioService
        /\ svc[call[c].svc].loadingPromise = c
        /\ \A d \in Calls \ {c} : ~InFlight(call[d]))
         => LET s == call[c].svc IN
            /\ ~svc'[s].isLoading
            /\ ~svc'[s].isStarting
            /\ svc'[s].loadingPromise = Null
            /\ ~store'.loadingTrack
            /\ call'[c].pc = "done" /\ call'[c].result = "false"
            /\ svc'[s].howl = Null
            /\ ~CacheGet(audioCache', call[c].track).found]_vars

(* C9: consecutive play errors of a handle cause at most one automatic     *)
(* retry.                                                                  *)
C9_AtMostOneRetry == \A h \in Calls : howl[h].retries <= 1

(* C10: in repeat mode one the end of a track starts no fetch and keeps    *)
(* the handle; the callback it schedules, finding the handle at its end,   *)
(* seeks that handle to 0 and plays it, with the same track and without    *)
(* any fetch.                                                              *)
C10_RepeatOneResumes ==
  [][/\ \A h \in Calls :
          (HowlEnded(h) /\ store.repeatMode = "one")
            => /\ call' = call /\ ncall' = ncall
               /\ Live(h)' /\ svc'[howl[h].svc].howl = svc[howl[h].svc].howl
               /\ timers'.repeatOne = timers.repeatOne + 1
     /\ RepeatOneTimer =>
          LET a == store.audioService
              h == IF a = Null THEN Null ELSE svc[a].howl
          IN (/\ h # Null /\ store.currentSong # Null
              /\ howl[h].state = "loaded" /\ howl[h].pos = TrackDuration)
               => /\ call' = call /\ ncall' = ncall
                  /\ svc'[a].howl = h
                  /\ howl'[h].state = "loaded"
                  /\ howl'[h].track = howl[h].track
                  /\ howl'[h].pos = 0
                  /\ howl'[h].playReq > 0
                  /\ store'.isPlaying]_vars

\* the repeat-one callback found the handle at its end and restarted it
C10_Witness ==
  /\ gh.repeated # Null
  /\ store.repeatMode = "one"
  /\ store.isPlaying
  /\ howl[gh.repeated].state = "loaded"
  /\ howl[gh.repeated].pos = 0
  /\ howl[gh.repeated].playReq > 0
  /\ \A c \in Calls : ~Fetching(c)

(* C11: in repeat mode all the end of a track schedules playNextTrack;     *)
(* when it runs, the playlist index becomes (currentIndex + 1) mod length, *)
(* 0 after the last index, and the song at that index is the one           *)
(* selectTrack makes the current song.                                     *)
C11_RepeatAllWraps ==
  [][/\ \A h \in Calls :
          (HowlEnded(h) /\ store.repeatMode = "all")
            => timers'.next = timers.next + 1
     /\ (NextTimer /\ store.hasPlaylistManager /\ Len(pm.songs) > 0)
          => LET n == (pm.currentIndex + 1) % Len(pm.songs) IN
             /\ pm'.songs = pm.songs
             /\ pm'.currentIndex = n
             /\ store'.currentSong = pm.songs[n + 1]]_vars

\* playNextTrack ran from the timer at the last index and selected the
\* first song
C11_Witness ==
  /\ gh.last.op = "next"
  /\ Len(pm.songs) > 1
  /\ gh.last.a = Len(pm.songs) - 1
  /\ pm.currentIndex = 0
  /\ store.currentSong = pm.songs[1]
  /\ \E c \in Calls : Fetching(c) /\ call[c].track = pm.songs[1]

(* C12: in repeat mode off, when a track ends and the store has a          *)
(* playlist: at the last index nothing is scheduled or selected, the       *)
(* index is unchanged and playback is stopped; before the last index the   *)
(* selection of the next track is scheduled.                               *)
C12_RepeatOffAdvances ==
  [][\A h \in Calls :
       (/\ HowlEnded(h) /\ store.repeatMode = "off"
        /\ store.hasPlaylistManager /\ howl[h].svc = store.audioService)
         => /\ pm' = pm
            /\ ~store'.isPlaying
            /\ call' = call
            /\ timers'.next = IF pm.currentIndex + 1 < Len(pm.songs)
                              THEN timers.next + 1 ELSE timers.next]_vars

\* the store's current song is loaded in its service on a ready handle and
\* no load is in flight
LoadedAndIdle(id) ==
  LET a == store.audioService IN
  /\ store.currentSong = id /\ a # Null /\ ~store.loadingTrack
  /\ svc[a].currentTrackId = id /\ svc[a].howl # Null
  /\ howl[svc[a].howl].state = "loaded"
  /\ \A c \in Calls : ~InFlight(call[c])

C14_CacheHitSkipsFetch ==
  [][\A id \in Tracks :
       (/\ ClientStart(1, id)
        /\ audioCache.trackId = id
        /\ audioCache.blob # NoBlob /\ audioCache.metadata # NoMetadata)
         => LET c == ncall' IN
            /\ c = ncall + 1
            /\ ~call'[c].fetched
            /\ call'[c].pc \in {"howl", "done"}
            /\ call'[c].pc = "howl"
                 => /\ howl'[c].state = "loading"
                    /\ howl'[c].track = id
                    /\ svc'[1].howl = c
                    /\ audioCache' = audioCache]_vars

\* a load is waiting for the handle it built from the cache
C14_Witness ==
  \E c \in Calls :
    /\ call[c].pc = "howl" /\ ~call[c].fetched /\ ~call[c].wroteCache
    /\ howl[c].state = "loading" /\ howl[c].track = call[c].track
    /\ audioCache.trackId = call[c].track

(* C15: when the last chunk batch of a load arrives, a handle is built     *)
(* for the load's track with the volume set last; every live handle of     *)
(* the store's service has the store's volume, whenever it was set; and    *)
(* when a handle has loaded, a play of the service's handle is under way.  *)
C15_LoadedHandlePlaysAtSetVolume ==
  [][/\ \A c \in Calls :
          (ChunkResponse(c) /\ call'[c].pc = "howl")
            => /\ howl'[c].state = "loading"
               /\ howl'[c].track = call[c].track
               /\ howl'[c].volume = store.volume
     /\ \A h \in Calls :
          (Live(h)' /\ howl'[h].svc = store'.audioService)
            => howl'[h].volume = store'.volume
     /\ \A h \in Calls :
          (HowlLoaded(h) /\ svc'[howl[h].svc].howl # Null)
            => howl'[svc'[howl[h].svc].howl].playReq > 0]_vars

\* a handle loaded and is about to play at a volume set while its load
\* was in flight
C15_Witness ==
  \E h \in Calls :
    /\ gh.last.op = "loaded" /\ gh.last.a = h
    /\ howl[h].state = "loaded" /\ howl[h].playReq > 0
    /\ call[h].fetched /\ call[h].result = "true"
    /\ howl[h].volume = store.volume
    /\ howl[h].volume # call[h].vol

(* C16: a seek dispatched while the store's service is loading a track    *)
(* (seekToPosition from the progress bar, or the seek to 0 of              *)
(* playPreviousTrack) changes neither the position of any handle nor the   *)
(* playback time and progress the store reports.                          *)
C16_SeekWhileLoadingIsNoOp ==
  [][LET a == store.audioService
         Seeks == \/ \E p \in {50, 100} : UserSeekToPosition(p)
                  \/ UserPlayPreviousTrack /\ store.currentTime > 3
     IN (a # Null /\ svc[a].isLoading /\ Seeks)
          => /\ howl' = howl
             /\ store'.currentTime = store.currentTime
             /\ store'.playbackProgress = store.playbackProgress]_vars

(* C17: togglePlayback, playAndPause and pause leave the service's track   *)
(* id and handle, every handle's buffer, the cache, the playlist position  *)
(* and the loads untouched and start no load; a toggle that the store      *)
(* does not ignore flips the playing flag, pausing the handle when it was  *)
(* set and asking a ready handle to play when it was not.                  *)
C17_PausePlayOnlyToggle ==
  [][LET a == store.audioService IN
     /\ (UserTogglePlayback \/ ClientPlayAndPause(1) \/ ClientPause(1))
          => /\ audioCache' = audioCache /\ pm' = pm
             /\ call' = call /\ ncall' = ncall
             /\ store'.currentSong = store.currentSong
             /\ \A s \in Svcs : /\ svc'[s].currentTrackId = svc[s].currentTrackId
                                /\ svc'[s].howl = svc[s].howl
             /\ \A h \in Calls : /\ howl'[h].state = howl[h].state
                                 /\ howl'[h].track = howl[h].track
                                 /\ howl'[h].svc = howl[h].svc
     /\ (UserTogglePlayback /\ a # Null /\ ~store.loadingTrack)
          => /\ store'.isPlaying = ~store.isPlaying
             /\ \A h \in Calls :
                  (h = svc[a].howl /\ howl[h].state = "loaded")
                    => IF store.isPlaying
                       THEN ~howl'[h].playing /\ howl'[h].playReq = 0
                       ELSE svc[a].isLoading \/ howl'[h].playReq > 0]_vars

\* the user paused a playing track: the handle, its track and the cache
\* entry are still there
C17_Witness ==
  /\ gh.last.op = "toggle" /\ gh.last.a # Null /\ gh.last.b = 1
  /\ store.audioService # Null
  /\ svc[store.audioService].howl = gh.last.a
  /\ howl[gh.last.a].state = "loaded" /\ ~howl[gh.last.a].playing
  /\ ~store.isPlaying
  /\ svc[store.audioService].currentTrackId = howl[gh.last.a].track
  /\ audioCache.trackId = howl[gh.last.a].track

C19_BatchRequestsInOrder ==
  [][\A c \in Calls :
       LET n == call'[c].total
           k == call'[c].batch
           r == call'[c].req
       IN /\ call'[c].pc = "chunk"
               => /\ 10 * k < n
                  /\ r.chunk_index = 10 * k
                  /\ r.chunk_count = (IF n - 10 * k < 10 THEN n - 10 * k ELSE 10)
                  /\ call'[c].loaded = 10 * k
          /\ (ChunkResponse(c) /\ call'[c].pc = "chunk")
               => /\ r.chunk_index = call[c].req.chunk_index + 10
                  /\ call[c].req.chunk_count = 10
          /\ ((MetadataResponseOf(c, n) \/ ChunkResponse(c))
                /\ call'[c].pc = "howl")
               => /\ 10 * (k - 1) < n /\ n <= 10 * k
                  /\ call'[c].loaded = n]_vars

\* the last of the three requests of a 25-chunk track is out: 5 chunks
\* from index 20
C19_Witness ==
  \E c \in Calls :
    /\ call[c].pc = "chunk" /\ call[c].total = 25
    /\ call[c].req = [chunk_index |-> 20, chunk_count |-> 5]
    /\ call[c].loaded = 20

(* C20: the chunks collected so far are the track's chunks in index order, *)
(* and the blob built from the n chunks of a track holds the track's byte  *)
(* at every offset, n * chunkSize bytes in all, chunk i at offset          *)
(* i * chunkSize.                                                          *)
C20_AssembledBufferIsTheTrack ==
  /\ \A c \in Calls :
       call[c].pc \in {"chunk", "howl"}
         => /\ Len(call[c].chunks) = call[c].loaded
            /\ \A i \in 1..Len(call[c].chunks) :
                 call[c].chunks[i] = OriginalChunk(call[c].track, i - 1)
  /\ audioCache.blob # NoBlob
       => LET id == audioCache.trackId
              n == audioCache.metadata.total_chunks
              chunkSize == ChunkSizeOf(id)
              bytes == audioCache.blob.bytes
          IN /\ Len(bytes) = n * chunkSize
             /\ \A o \in 0..(Len(bytes) - 1) : bytes[o + 1] = OriginalByte(id, o)
             /\ \A i \in 0..(n - 1) :
                  SubSeq(bytes, i * chunkSize + 1, (i + 1) * chunkSize)
                    = OriginalChunk(id, i)

\* a 25-chunk track was assembled from its three batches
C20_Witness ==
  /\ audioCache.blob # NoBlob
  /\ audioCache.metadata.total_chunks = 25
  /\ Len(audioCache.blob.bytes) = 25 * ChunkSizeOf(audioCache.trackId)
  /\ audioCache.blob.bytes[10 * ChunkSizeOf(audioCache.trackId) + 1]
       = OriginalByte(audioCache.trackId, 10 * ChunkSizeOf(audioCache.trackId))

(* C21: a batch response causes one progress call per chunk it carries,   *)
(* with loaded counting up by one from the chunks held before (from 1 in   *)
(* the first batch), total the track's total_chunks and percent =          *)
(* loaded / total * 100; no other step causes one; and the last call of a  *)
(* load that goes on to build its handle has loaded = total.               *)
C21_ProgressPerChunk ==
  [][/\ \A c \in Calls :
          ChunkResponse(c)
            => LET n == call[c].req.chunk_count
                   e == gh'.emitted
               IN /\ Len(e) = n
                  /\ call[c].batch = 0 => call[c].loaded = 0
                  /\ \A i \in 1..n :
                       /\ e[i].loaded = call[c].loaded + i
                       /\ e[i].total = call[c].total
                       /\ e[i].percent = (e[i].loaded * 100) \div e[i].total
                  /\ n > 0 => /\ store'.chunksLoaded = e[n].loaded
                              /\ store'.totalChunks = e[n].total
                              /\ store'.loadProgress = e[n].percent
                  /\ (call'[c].pc = "howl" /\ call[c].total > 0)
                       => /\ n > 0
                          /\ e[n].loaded = call[c].total
                          /\ e[n].percent = 100
     /\ (\A c \in Calls : ~ChunkResponse(c)) => gh'.emitted = <<>>]_vars

\* the second batch of a 25-chunk track was reported chunk by chunk
C21_Witness ==
  /\ Len(gh.emitted) = 10
  /\ gh.emitted[1].loaded = 11 /\ gh.emitted[10].loaded = 20
  /\ gh.emitted[10].total = 25 /\ gh.emitted[10].percent = 80
  /\ store.chunksLoaded = 20 /\ store.totalChunks = 25

(* C22: next() moves the index to (currentIndex + 1) mod length and prev() *)
(* to (currentIndex - 1 + length) mod length and neither touches the list; *)
(* on an empty list both change nothing; and from every state with a       *)
(* non-empty list, prev() after next() and next() after prev() give back   *)
(* the index.                                                              *)
C22_NextPrevCircular ==
  [][LET n == Len(pm.songs)
         i == pm.currentIndex
         mod(a) == CHOOSE r \in 0..(n - 1) : \E q \in -1..1 : a = q * n + r
     IN /\ ClientNext => IF n = 0 THEN pm' = pm
                         ELSE pm'.songs = pm.songs
                              /\ pm'.currentIndex = mod(i + 1)
        /\ ClientPrev => IF n = 0 THEN pm' = pm
                         ELSE pm'.songs = pm.songs
                              /\ pm'.currentIndex = mod(i - 1 + n)
        /\ n > 0 => /\ PMPrev(PMNext(World)).pm.currentIndex = i
                    /\ PMNext(PMPrev(World)).pm.currentIndex = i
        /\ (ClientNext /\ n > 0) => PMPrev([World EXCEPT !.pm = pm']).pm = pm
        /\ (ClientPrev /\ n > 0) => PMNext([World EXCEPT !.pm = pm']).pm = pm]_vars

\* prev() at index 0 of a list of three or more songs went to the last one
C22_Witness ==
  /\ gh.last.op = "prev()" /\ gh.last.a = 0
  /\ Len(pm.songs) >= 3
  /\ pm.currentIndex = Len(pm.songs) - 1

\* 0 <= currentIndex < length, or 0 for an empty list
IndexInRange(p) ==
  IF Len(p.songs) = 0 THEN p.currentIndex = 0
  ELSE 0 <= p.currentIndex /\ p.currentIndex < Len(p.songs)

(* C23: after the constructor and after every playlist operation the index *)
(* is within the list, and 0 when the list is empty; setSongs keeps an     *)
(* index that fits the new list and resets any other to 0.                 *)
C23_IndexWithinList ==
  /\ IndexInRange(pm)
  /\ [][/\ IndexInRange(pm')
        /\ \A list \in SongLists :
             ClientSetSongs(list)
               => /\ pm'.songs = list
                  /\ pm'.currentIndex = IF pm.currentIndex >= Len(list) THEN 0
                                        ELSE pm.currentIndex]_vars

\* setSongs found the index beyond the new, non-empty list and reset it
C23_Witness ==
  /\ gh.last.op = "setSongs"
  /\ Len(pm.songs) > 0 /\ gh.last.a >= Len(pm.songs)
  /\ pm.currentIndex = 0

\* the two lists hold the same songs, each as often
SameSongs(a, b) ==
  /\ Len(a) = Len(b)
  /\ \A x \in SongIds :
       Cardinality({i \in 1..Len(a) : a[i] = x})
         = Cardinality({i \in 1..Len(b) : b[i] = x})

(* C24: switching shuffle on leaves the playlist a permutation of what it  *)
(* was, with the index at 0 and, when the store's current song is in the   *)
(* list, that song at index 0.                                             *)
C24_ShufflePinsCurrent ==
  [][\A random \in RandomDraws :
       (UserToggleShuffle(random) /\ ~store.isShuffleActive)
         => LET before == IF store.hasPlaylistManager THEN pm.songs ELSE tracks
            IN /\ SameSongs(pm'.songs, before)
               /\ pm'.currentIndex = 0
               /\ FindIndex(before, store.currentSong) >= 0
                    => pm'.songs[1] = store.currentSong]_vars

(* C25: switching shuffle off right after switching it on gives the        *)
(* playlist the list it had when shuffle was switched on, with the index   *)
(* at the song that was current then.                                      *)
C25_UnshuffleRestoresOrder ==
  [][\A random \in RandomDraws :
       (/\ UserToggleShuffle(random) /\ store.isShuffleActive
        /\ gh.last.op = "toggleShuffle" /\ gh.last.a = 1)
         => /\ pm'.songs = gh.atShuffle.songs
            /\ gh.atShuffle.current # Null
                 => /\ pm'.songs[pm'.currentIndex + 1] = gh.atShuffle.current
                    /\ store'.currentSong = store.currentSong]_vars

(* C26: the saved order is empty unless shuffle is active, and while       *)
(* shuffle is active and the saved order is not empty it is the list the   *)
(* playlist had when shuffle was switched on.                              *)
C26_SavedOrderOnlyWhileShuffled ==
  /\ store.originalTrackOrder # <<>> => store.isShuffleActive
  /\ (store.originalTrackOrder # <<>> /\ gh.atShuffle.active)
       => store.originalTrackOrder = gh.atShuffle.songs

(* C27: the store's volume is within 0..100, the store is muted exactly    *)
(* when its volume is 0, and while the store has an audio service that     *)
(* service and the handle it holds have the store's volume.                *)
C27_VolumeAndMuteAgree ==
  LET a == store.audioService IN
  /\ 0 <= store.volume /\ store.volume <= 100
  /\ store.isMuted <=> store.volume = 0
  /\ a # Null
       => /\ svc[a].volume = store.volume
          /\ svc[a].howl # Null => howl[svc[a].howl].volume = store.volume

\* the mute button restored the volume set before muting, on a handle that
\* was loaded while muted
C27_Witness ==
  LET a == store.audioService IN
  /\ gh.last.op = "toggleMute" /\ gh.last.a = 1 /\ gh.last.b = 0
  /\ store.volume = 100 /\ ~store.isMuted
  /\ a # Null /\ svc[a].howl # Null
  /\ howl[svc[a].howl].state = "loaded"
  /\ howl[svc[a].howl].volume = 100
  /\ call[svc[a].howl].vol = 0

(* C28: destroyPlayer leaves the cache without an entry, and the first     *)
(* selectTrack of a store that has no service (none yet, or none since     *)
(* destroyPlayer) fetches the track.                                       *)
C28_DestroyReleasesCache ==
  [][/\ UserDestroyPlayer
          => /\ audioCache' = EmptyCache
             /\ \A X \in Tracks : ~CacheGet(audioCache', X).found
     /\ \A id \in Tracks :
          (UserSelectTrack(id) /\ store.audioService = Null
             /\ ncall' = ncall + 1)
            => call'[ncall'].fetched]_vars

(* C29: the latest selection wins: while a service has a current track,   *)
(* the cache entry and the service's handle are that track's, and a load   *)
(* of that track that is in flight keeps the service's markers set,        *)
(* whatever loads of other tracks complete meanwhile.                      *)
C29_LatestSelectionWins ==
  \A s \in Svcs :
    LET A == svc[s].currentTrackId IN
    (svc[s].created /\ A # Null) =>
      /\ audioCache.trackId \in {Null, A}
      /\ svc[s].howl # Null => howl[svc[s].howl].track = A
      /\ \A a \in Calls :
           (/\ call[a].svc = s /\ call[a].track = A
            /\ InFlight(call[a]) /\ ~call[a].cancelled)
             => /\ svc[s].isLoading /\ svc[s].isStarting
                /\ svc[s].loadingPromise # Null

(* C30: a track the user selects after a natural end, while the delayed    *)
(* callback of that end is pending, is still the store's and the           *)
(* playlist's current song after the callback ran, and the callback starts *)
(* no load and plays no handle of another track.                           *)
C30_ManualSelectionSurvivesAutoAdvance ==
  [][((NextTimer \/ RepeatOneTimer) /\ gh.manual # Null)
       => /\ store'.currentSong = gh.manual
          /\ PMCurrentSong([pm |-> pm']) = gh.manual
          /\ ncall' = ncall
          /\ \A h \in Calls :
               howl'[h].playReq > howl[h].playReq
                 => howl[h].track = gh.manual]_vars

(* C31: stopTrack leaves isPlaying false and no handle playing; while the  *)
(* store then has no current song (until the next selectTrack), no step    *)
(* other than a togglePlayback of the user sets isPlaying or makes a       *)
(* handle play, also not the completion of a load that was in flight at    *)
(* stopTrack.                                                              *)
C31_StoppedStaysSilent ==
  [][/\ UserStopTrack
          => /\ ~store'.isPlaying
             /\ \A h \in Calls : ~howl'[h].playing /\ howl'[h].playReq = 0
     /\ (store.currentSong = Null /\ store'.currentSong = Null
           /\ ~UserTogglePlayback)
          => /\ store'.isPlaying => store.isPlaying
             /\ \A h \in Calls :
                  /\ howl'[h].playReq <= howl[h].playReq
                  /\ howl'[h].playing
                       => (howl[h].playing \/ howl[h].playReq > 0)]_vars

(* C32: the list of the store's PlaylistManager changes only through      *)
(* setSongs, shuffle and unshuffle: the response to the loadSongs request  *)
(* that the constructor started leaves the list and the index as they are. *)
C32_LoadSongsKeepsInstalledList ==
  [][LoadSongsResponseWith(AllSongs)
       => /\ pm'.songs = pm.songs
          /\ pm'.currentIndex = pm.currentIndex]_vars

(* C33: whenever the store's current song is in the list of its           *)
(* PlaylistManager, the entry at currentIndex is that song.                *)
C33_IndexPointsAtCurrentSong ==
  (/\ store.hasPlaylistManager /\ store.currentSong # Null
   /\ FindIndex(pm.songs, store.currentSong) >= 0)
    => /\ pm.currentIndex < Len(pm.songs)
       /\ pm.songs[pm.currentIndex + 1] = store.currentSong

(* C34: whenever the store's audio service has a load in flight           *)
(* (isLoading), the store's loadingTrack flag is true.                     *)
C34_LoadingFlagCoversLoad ==
  (store.audioService # Null /\ svc[store.audioService].isLoading)
    => store.loadingTrack

(* C35: the completion of a successful load, fetched or served from the   *)
(* cache, issues exactly one play command to the handle it built.          *)
C35_OnePlayPerLoad ==
  [][\A h \in Calls :
       (HowlLoaded(h) /\ call'[h].result = "true"
          /\ svc'[howl[h].svc].howl = h)
         => gh'.plays = 1]_vars

(* C36: whenever the store's isPlaying is true, a live handle exists that  *)
(* plays or has a play command under way.                                  *)
C36_PlayingMeansHandlePlays ==
  store.isPlaying
    => \E h \in Calls :
         /\ howl[h].state = "loaded"
         /\ howl[h].playing \/ howl[h].playReq > 0

(* C37: toggleMute on a muted store restores the volume that was in       *)
(* effect before the step that muted it, whether that step was toggleMute  *)
(* or setVolume(0), and gives it to the audio service and its handle.      *)
C37_UnmuteRestoresVolume ==
  [][(UserToggleMute /\ store.isMuted)
       => LET a == store'.audioService IN
          /\ ~store'.isMuted
          /\ store'.volume = gh.beforeMute
          /\ a # Null
               => /\ svc'[a].volume = gh.beforeMute
                  /\ svc'[a].howl # Null
                       => howl'[svc'[a].howl].volume = gh.beforeMute]_vars

(* C38: a filter() call resolves to the list fetched with the filters it  *)
(* left on the manager, and a call awaits a request that is already out    *)
(* only when that request carries the same parameters.                     *)
C38_FilterResolvesToItsFilters ==
  [][/\ SongsResponse => \A e \in pm.awaiting : pm'.songs = FetchSongs(e)
     /\ \A e \in pm'.awaiting : e = pm'.req]_vars


(* ---------------------- ApiService.retryRequest ----------------------- *)
\* the head of the two loops: the next immediate attempt invokes requestFn
\* at once, the next delayed attempt first waits, and after the last
\* delayed attempt the last error is thrown
AttemptNext(w) ==
  LET r == w.retry
      delayed == IF r.phase = 1 THEN 0 ELSE r.attempt
  IN IF r.phase = 1 /\ r.attempt < IMMEDIATE_RETRIES
     THEN [w EXCEPT !.retry.attempt = @ + 1, !.retry.pc = "request",
                    !.retry.calls = @ + 1]
     ELSE IF delayed < DELAYED_RETRIES
     THEN [w EXCEPT !.retry.phase = 2, !.retry.attempt = delayed + 1,
                    !.retry.pc = "delay"]
     ELSE [w EXCEPT !.retry.phase = 2, !.retry.pc = "thrown",
                    !.retry.thrown = r.lastError]

\* retryRequest(requestFn) with the default arguments, as every caller does
RetryRequest(w) == AttemptNext([w EXCEPT !.retry = [NoRetry EXCEPT !.phase = 1]])

\* the catch block of both loops; status is error.response?.status, Null
\* when the error carries no response
OnRequestErrorRetryingAuth(w, status) ==
  AttemptNext([w EXCEPT !.retry.lastError = <<status>>])
OnRequestError(w, status) ==
  LET w1 == [w EXCEPT !.retry.lastError = <<status>>]
  IN IF status = 401 \/ status = 403
     THEN [w1 EXCEPT !.retry.pc = "thrown", !.retry.thrown = <<status>>]
     ELSE AttemptNext(w1)

\* a caller of the service invokes retryRequest
ApiCall == retry.pc = "idle" /\ Step(RetryRequest(World))

\* requestFn resolves: return await requestFn()
RequestResolved(data) ==
  /\ retry.pc = "request"
  /\ Step([World EXCEPT !.retry.pc = "returned", !.retry.result = <<data>>])

\* requestFn rejects
RequestRejected(status) ==
  /\ retry.pc = "request"
  /\ Step(OnRequestError(World, status))

\* the setTimeout of a delayed attempt fires and requestFn is invoked
RetryDelayElapsed ==
  /\ retry.pc = "delay"
  /\ Step([World EXCEPT !.retry.pc = "request", !.retry.calls = @ + 1,
                        !.retry.delays = @ + 1])

RetryNext ==
  \/ ApiCall
  \/ \E data \in 1..2 : RequestResolved(data)
  \/ \E status \in {Null, 401, 403, 404, 500, 503} : RequestRejected(status)
  \/ RetryDelayElapsed

\* every request settles (the client's timeout) and every timer fires
RetrySpec == Init /\ [][RetryNext]_vars /\ WF_vars(RetryNext)

\* C39: retryRequest always terminates; it invokes the request at most 10
\* times, 5 immediate attempts and then 5 attempts each preceded by a delay;
\* it returns the first successful result without further attempts; it stops
\* at once and rethrows on a 401 or 403 response; otherwise it rethrows the
\* error of the last attempt.
C39_RetryRequestTerminates ==
  /\ [](/\ retry.calls <= IMMEDIATE_RETRIES + DELAYED_RETRIES
        /\ retry.calls - retry.delays <= IMMEDIATE_RETRIES
        /\ retry.delays <= DELAYED_RETRIES
        /\ retry.delays > 0 => retry.calls = IMMEDIATE_RETRIES + retry.delays)
  /\ [][/\ \A data \in 1..2 : RequestResolved(data) =>
              /\ retry'.pc = "returned"
              /\ retry'.result = <<data>>
              /\ retry'.calls = retry.calls
        /\ \A status \in {401, 403} : RequestRejected(status) =>
              /\ retry'.pc = "thrown"
              /\ retry'.thrown = <<status>>
              /\ retry'.calls = retry.calls
        /\ \A status \in {Null, 404, 500, 503} : RequestRejected(status) =>
              \/ retry'.pc \in {"request", "delay"}
              \/ /\ retry'.pc = "thrown"
                 /\ retry'.thrown = <<status>>
                 /\ retry.calls = IMMEDIATE_RETRIES + DELAYED_RETRIES
        /\ retry.pc \in {"returned", "thrown"} => retry' = retry]_vars
  /\ (retry.pc # "idle") ~> (retry.pc \in {"returned", "thrown"})

\* all ten attempts failed and the last error is rethrown
C39_Witness ==
  /\ retry.pc = "thrown"
  /\ retry.calls = 10
  /\ retry.delays = 5
  /\ retry.thrown = <<500>>

====
